---- MODULE Spec2Model ----
(***************************************************************************)
(* Reconciliation engine of the medical-inspector repository               *)
(* (src/src/comparison.py, with the session state of src/src/ui.py and     *)
(* src/src/processing.py around it).                                       *)
(*                                                                         *)
(* Python strings that the code takes apart (dates, serial numbers,        *)
(* battery levels) are sequences of one-character strings; dictionary keys *)
(* and fixed messages, which the code only compares, are TLA+ strings.     *)
(* A Python dict is a function whose DOMAIN is the set of keys present.    *)
(***************************************************************************)
EXTENDS Integers, Sequences, FiniteSets, TLC

VARIABLES
    dae_type,        \* st.session_state.dae_type ("G5", "G3")
    processed_data,  \* st.session_state.processed_data
    st_messages,     \* what the last operation sent to st.error
    returned,        \* the value the last compare_data call returned
    last_call,       \* the operation that ran last
    pc,              \* position of the function-level harness
    args,            \* the arguments the harness passes
    out              \* the value the function under the harness returned

vars == <<dae_type, processed_data, st_messages, returned, last_call, pc, args, out>>

---------------------------------------------------------------------------
(* Python values *)

\* Python's None: a value no character sequence equals (every element of a
\* string is one character long).
None == <<"None">>

\* comparison.py:12
NA == <<"N", "/", "A">>

\* comparison.py:13
G5_TYPE == "G5"

\* truthiness of an Optional[str]: None and '' are falsy
Truthy(v) == v # None /\ v # <<>>

EmptyDict == [k \in {} |-> None]

\* dict.get(key), default None
Get(d, k) == IF k \in DOMAIN d THEN d[k] ELSE None

\* dict.get(key, default)
GetOr(d, k, default) == IF k \in DOMAIN d THEN d[k] ELSE default

Digits == {"0", "1", "2", "3", "4", "5", "6", "7", "8", "9"}

DigitVal(c) ==
    CASE c = "0" -> 0 [] c = "1" -> 1 [] c = "2" -> 2 [] c = "3" -> 3
      [] c = "4" -> 4 [] c = "5" -> 5 [] c = "6" -> 6 [] c = "7" -> 7
      [] c = "8" -> 8 [] c = "9" -> 9

RECURSIVE NumVal(_)
\* int() of a sequence of digits
NumVal(s) == IF s = <<>> THEN 0
             ELSE 10 * NumVal(SubSeq(s, 1, Len(s) - 1)) + DigitVal(s[Len(s)])

AllDigits(s) == \A i \in 1..Len(s) : s[i] \in Digits

\* re.sub(r'[^...]', '', s) for a character class: the characters of s that
\* are in keep, in order
RECURSIVE KeepChars(_, _)
KeepChars(s, keep) ==
    IF s = <<>> THEN <<>>
    ELSE (IF Head(s) \in keep THEN <<Head(s)>> ELSE <<>>) \o KeepChars(Tail(s), keep)

\* str.replace(old, new) for single characters
ReplaceChar(s, old, new) == [i \in 1..Len(s) |-> IF s[i] = old THEN new ELSE s[i]]

RECURSIVE LStrip(_)
LStrip(s) == IF s # <<>> /\ Head(s) = " " THEN LStrip(Tail(s)) ELSE s

RECURSIVE RStrip(_)
RStrip(s) == IF s # <<>> /\ s[Len(s)] = " " THEN RStrip(SubSeq(s, 1, Len(s) - 1)) ELSE s

\* str.strip()
Strip(s) == RStrip(LStrip(s))

\* s.split(' ')[0]: the characters before the first space
RECURSIVE FirstToken(_)
FirstToken(s) ==
    IF s = <<>> \/ Head(s) = " " THEN <<>> ELSE <<Head(s)>> \o FirstToken(Tail(s))

HasChar(s, c) == \E i \in 1..Len(s) : s[i] = c

---------------------------------------------------------------------------
(* datetime.strptime, as parse_date uses it *)

\* The formats of parse_date, in its order.  A format is a sequence of
\* directives ("%d", "%m", ...) and literal characters.
formats == <<
    <<"%d", "/", "%m", "/", "%Y", " ", "%H", ":", "%M">>,
    <<"%d", "/", "%m", "/", "%Y", " ", "%H", ":", "%M", ":", "%S">>,
    <<"%Y", "-", "%m", "-", "%d", " ", "%H", ":", "%M">>,
    <<"%Y", "-", "%m", "-", "%d", " ", "%H", ":", "%M", ":", "%S">>,
    <<"%d", "/", "%m", "/", "%Y">>,
    <<"%Y", "-", "%m", "-", "%d">>,
    <<"%m", "/", "%d", "/", "%Y">>,
    <<"%d", "-", "%m", "-", "%Y">>,
    <<"%Y", "/", "%m", "/", "%d">>,
    <<"%Y", "%m", "%d">>,
    <<"%d", " ", "%b", " ", "%Y">>,
    <<"%d", " ", "%B", " ", "%Y">> >>

Directives == {"%d", "%m", "%Y", "%H", "%M", "%S", "%b", "%B"}

\* The alternatives of a directive's regular expression, as the lengths it
\* tries in order and the values it accepts at each length:
\*   %d  3[0-1]|[1-2]\d|0[1-9]|[1-9]      %m  1[0-2]|0[1-9]|[1-9]
\*   %H  2[0-3]|[0-1]\d|\d                %M  [0-5]\d|\d
\*   %S  6[0-1]|[0-5]\d|\d                %Y  \d\d\d\d
\* %b and %B match month names only: letters.
DirectiveLengths(dir) ==
    CASE dir = "%Y" -> <<4>>
      [] dir \in {"%b", "%B"} -> <<>>
      [] OTHER -> <<2, 1>>

DirectiveAccepts(dir, text) ==
    /\ AllDigits(text)
    /\ LET v == NumVal(text) IN
       CASE dir = "%Y" -> Len(text) = 4
         [] dir = "%d" -> IF Len(text) = 2 THEN v \in 1..31 ELSE v \in 1..9
         [] dir = "%m" -> IF Len(text) = 2 THEN v \in 1..12 ELSE v \in 1..9
         [] dir = "%H" -> IF Len(text) = 2 THEN v \in 0..23 ELSE TRUE
         [] dir = "%M" -> IF Len(text) = 2 THEN v \in 0..59 ELSE TRUE
         [] dir = "%S" -> IF Len(text) = 2 THEN v \in 0..61 ELSE TRUE
         [] OTHER -> FALSE

NoMatch == [ok |-> FALSE]

RECURSIVE RegexMatch(_, _, _, _, _)
RECURSIVE TryLengths(_, _, _, _, _, _)
RECURSIVE SkipSpaces(_, _)

SkipSpaces(s, j) == IF j <= Len(s) /\ s[j] = " " THEN SkipSpaces(s, j + 1) ELSE j

\* re.match of the format's regular expression against s from position j,
\* with the groups found so far: the first match in the regular expression's
\* order of preference (a directive gives up a longer alternative when the
\* rest of the format cannot match after it).
RegexMatch(fmt, k, s, j, groups) ==
    IF k > Len(fmt) THEN [ok |-> TRUE, end |-> j, groups |-> groups]
    ELSE IF fmt[k] \in Directives
         THEN TryLengths(fmt, k, s, j, groups, DirectiveLengths(fmt[k]))
    ELSE IF fmt[k] = " "
         \* whitespace in a format stands for \s+
         THEN IF j <= Len(s) /\ s[j] = " "
              THEN RegexMatch(fmt, k + 1, s, SkipSpaces(s, j), groups)
              ELSE NoMatch
    ELSE IF j <= Len(s) /\ s[j] = fmt[k]
         THEN RegexMatch(fmt, k + 1, s, j + 1, groups)
         ELSE NoMatch

TryLengths(fmt, k, s, j, groups, lens) ==
    IF lens = <<>> THEN NoMatch
    ELSE LET n == Head(lens)
             text == IF j + n - 1 <= Len(s) THEN SubSeq(s, j, j + n - 1) ELSE <<>>
             rest == IF Len(text) = n /\ DirectiveAccepts(fmt[k], text)
                     THEN RegexMatch(fmt, k + 1, s, j + n,
                                     groups @@ (fmt[k] :> NumVal(text)))
                     ELSE NoMatch
         IN IF rest.ok THEN rest ELSE TryLengths(fmt, k, s, j, groups, Tail(lens))

IsLeap(y) == (y % 4 = 0 /\ y % 100 # 0) \/ y % 400 = 0

DaysInMonth(y, m) ==
    IF m = 2 THEN (IF IsLeap(y) THEN 29 ELSE 28)
    ELSE IF m \in {4, 6, 9, 11} THEN 30 ELSE 31

\* datetime.strptime(s, fmt).date(): a date, or ValueError (ok = FALSE) when
\* the format does not match, data remains after the match, or the fields
\* are no calendar date.
strptime(s, fmt) ==
    LET m == RegexMatch(fmt, 1, s, 1, EmptyDict) IN
    IF ~m.ok \/ m.end # Len(s) + 1 THEN NoMatch
    ELSE LET y  == GetOr(m.groups, "%Y", 1900)
             mo == GetOr(m.groups, "%m", 1)
             d  == GetOr(m.groups, "%d", 1)
         IN IF y >= 1 /\ d <= DaysInMonth(y, mo)
            THEN [ok |-> TRUE, date |-> [year |-> y, month |-> mo, day |-> d]]
            ELSE NoMatch

---------------------------------------------------------------------------
(* comparison.py: parse_date *)

DateChars == Digits \cup {":", "/", " ", "-"}

\* clean_date of parse_date (comparison.py:44-45)
clean_date(date_str) == ReplaceChar(Strip(KeepChars(date_str, DateChars)), "/", "-")

\* date_part of parse_date (comparison.py:46)
date_part(date_str) ==
    LET c == clean_date(date_str) IN IF HasChar(c, " ") THEN FirstToken(c) ELSE c

RECURSIVE TryFormats(_, _)
TryFormats(s, k) ==
    IF k > Len(formats) THEN NoMatch
    ELSE LET r == strptime(s, formats[k]) IN
         IF r.ok THEN r ELSE TryFormats(s, k + 1)

\* A variant of parse_date whose error names only the date part it tried,
\* not the whole cleaned input.
parse_date_echoing_date_part(date_str) ==
    LET r == TryFormats(date_part(date_str), 1) IN
    IF r.ok THEN [ok |-> TRUE, date |-> r.date, error |-> None]
    ELSE [ok |-> FALSE, date |-> None,
          error |-> [msg |-> "Unrecognized format: ", arg |-> date_part(date_str)]]

\* parse_date(date_str) -> (date, error); ok tells which of the two is None
parse_date(date_str) ==
    LET r == TryFormats(date_part(date_str), 1) IN
    IF r.ok THEN [ok |-> TRUE, date |-> r.date, error |-> None]
    ELSE [ok |-> FALSE, date |-> None,
          error |-> [msg |-> "Unrecognized format: ", arg |-> clean_date(date_str)]]

---------------------------------------------------------------------------
(* utils.normalize_serial (spec.md 4.2: case-folds, strips whitespace and   *)
(* punctuation)                                                             *)

UpperCase == <<"A", "B", "C", "D", "E", "F", "G", "H", "I", "J", "K", "L", "M",
               "N", "O", "P", "Q", "R", "S", "T", "U", "V", "W", "X", "Y", "Z">>

LowerCase == <<"a", "b", "c", "d", "e", "f", "g", "h", "i", "j", "k", "l", "m",
               "n", "o", "p", "q", "r", "s", "t", "u", "v", "w", "x", "y", "z">>

ToLower(c) ==
    IF \E i \in 1..Len(UpperCase) : UpperCase[i] = c
    THEN LowerCase[CHOOSE i \in 1..Len(UpperCase) : UpperCase[i] = c]
    ELSE c

AlphaNum == Digits \cup {LowerCase[i] : i \in 1..Len(LowerCase)}

normalize_serial(raw) == KeepChars([i \in 1..Len(raw) |-> ToLower(raw[i])], AlphaNum)

---------------------------------------------------------------------------
(* comparison.py: compare_values, compare_rvd_releve *)

\* f"match_{key1}_{key2}"
MatchKey(key1, key2) == "match_" \o key1 \o "_" \o key2

\* An ordered dict is a sequence of <<key, value>> pairs.
Keys(items) == {items[i][1] : i \in 1..Len(items)}

\* A variant of PairsOf that pairs only neighbouring positions: comparisons
\* built with it miss the pairs that are not neighbours.
AdjacentPairsOf(n) == {p \in (1..n) \X (1..n) : p[2] = p[1] + 1}

\* the pairs (i, j), i < j, of the positions of a sequence: enumerate(keys)
\* against keys[i+1:]
PairsOf(n) == {p \in (1..n) \X (1..n) : p[1] < p[2]}

\* A variant of PresentItems that keeps 'N/A' values: comparisons built with
\* it compare the sentinel as a value.
PresentItemsKeepingNA(items) == SelectSeq(items, LAMBDA it : Truthy(it[2]))

\* items with the entries whose value is missing ('', None, 'N/A') dropped
\* (comparison.py:63, 101)
PresentItems(items) == SelectSeq(items, LAMBDA it : Truthy(it[2]) /\ it[2] # NA)

\* normalizer(v): a callable is passed by name; the default of compare_values
\* is the identity lambda (comparison.py:58)
call_normalizer(normalizer, v) ==
    IF normalizer = "normalize_serial" THEN normalize_serial(v) ELSE v

\* compare_values(vals, normalizer)
compare_values(vals, normalizer) ==
    LET comparison == [k \in Keys(vals) |->
                         LET v == (CHOOSE i \in 1..Len(vals) : vals[i][1] = k)
                         IN IF Truthy(vals[v][2]) THEN vals[v][2] ELSE NA]
        kept == PresentItems(vals)
        normalized == [i \in 1..Len(kept) |-> call_normalizer(normalizer, kept[i][2])]
        matches == [mk \in {MatchKey(kept[p[1]][1], kept[p[2]][1]) : p \in PairsOf(Len(kept))} |->
                      LET p == CHOOSE q \in PairsOf(Len(kept)) :
                                   MatchKey(kept[q[1]][1], kept[q[2]][1]) = mk
                      IN normalized[p[1]] = normalized[p[2]]]
    IN matches @@ comparison

\* compare_rvd_releve(rvd_original, rvd_releve, aed_val, image_val, normalizer)
compare_rvd_releve(rvd_original, rvd_releve, aed_val, image_val, normalizer) ==
    compare_values(<< <<"rvd_original", rvd_original>>, <<"rvd_releve", rvd_releve>>,
                      <<"aed", aed_val>>, <<"image", image_val>> >>, normalizer)

---------------------------------------------------------------------------
(* comparison.py: compare_dates_with_releve *)

\* the (name, parse_date result) of every source with a value, in order
\* (comparison.py:94-105)
ParsedItems(items) ==
    [i \in 1..Len(items) |-> [name |-> items[i][1], parsed |-> parse_date(items[i][2])]]

\* the entries of dates that parsed (ok = TRUE) or failed to (ok = FALSE)
WithOk(dates, ok) == SelectSeq(dates, LAMBDA d : d.parsed.ok = ok)

\* comparison.py:108
month_year_only(dates) ==
    \E i \in 1..Len(dates) : dates[i].parsed.ok /\ dates[i].parsed.date.day = 1

\* comparison.py:114-120
dates_match(date1, date2, my_only) ==
    IF my_only
    THEN date1.year = date2.year /\ date1.month = date2.month
    ELSE date1 = date2

\* result['errors'] left empty whatever failed
date_errors_dropped(errors) == "errors" :> <<>>

\* comparison.py:110-111: result['errors'], one entry per date that failed
date_errors(errors) ==
    "errors" :> [i \in 1..Len(errors) |->
                   [name |-> errors[i].name, error |-> errors[i].parsed.error]]

\* comparison.py:113-120: one match entry for each pair of the valid dates
date_matches(valid_dates, my_only) ==
    [mk \in {MatchKey(valid_dates[p[1]].name, valid_dates[p[2]].name) :
               p \in PairsOf(Len(valid_dates))} |->
       LET p == CHOOSE q \in PairsOf(Len(valid_dates)) :
                    MatchKey(valid_dates[q[1]].name, valid_dates[q[2]].name) = mk
       IN dates_match(valid_dates[p[1]].parsed.date, valid_dates[p[2]].parsed.date, my_only)]

\* compare_dates_with_releve(rvd_orig_date, rvd_releve_date, aed_date, img_date)
compare_dates_with_releve(rvd_orig_date, rvd_releve_date, aed_date, img_date) ==
    LET items == << <<"rvd_original", rvd_orig_date>>, <<"rvd_releve", rvd_releve_date>>,
                    <<"aed", aed_date>>, <<"image", img_date>> >>
        result == [k \in Keys(items) |->
                     LET v == (CHOOSE i \in 1..Len(items) : items[i][1] = k)
                     IN IF Truthy(items[v][2]) THEN items[v][2] ELSE NA]
    IN CHOOSE r \in {date_matches(WithOk(dates, TRUE), month_year_only(dates))
                       @@ date_errors(WithOk(dates, FALSE)) @@ result :
                     dates \in {ParsedItems(PresentItems(items))}} : TRUE

---------------------------------------------------------------------------
(* comparison.py: get_image_by_type, get_dae_field *)

\* get_image_by_type(images, image_type): the first image of that type
\* (no image: the empty dict, which is falsy as None is)
HasType(img, image_type) == "type" \in DOMAIN img /\ img["type"] = image_type

get_image_by_type(images, image_type) ==
    IF \E i \in 1..Len(images) : HasType(images[i], image_type)
    THEN images[CHOOSE i \in 1..Len(images) :
                   /\ HasType(images[i], image_type)
                   /\ \A j \in 1..(i - 1) : ~HasType(images[j], image_type)]
    ELSE EmptyDict

\* image.get(key) if image else None
image_get(image, key) == IF image # EmptyDict THEN Get(image, key) ELSE None

\* get_dae_field(aed, field_g5, field_other); reads st.session_state
get_dae_field(aed, field_g5, field_other) ==
    LET is_g5 == dae_type = G5_TYPE IN Get(aed, IF is_g5 THEN field_g5 ELSE field_other)

---------------------------------------------------------------------------
(* comparison.py: compare_battery_level *)

\* A Python float that a decimal literal denotes, as the fraction num / den
\* in lowest power-of-ten terms (the decimals of the samples are far from
\* where binary rounding could change a comparison with a whole number).
RECURSIVE Pow10(_)
Pow10(n) == IF n = 0 THEN 1 ELSE 10 * Pow10(n - 1)

RECURSIVE Reduce(_)
Reduce(f) == IF f.den > 1 /\ f.num % 10 = 0
             THEN Reduce([f EXCEPT !.num = f.num \div 10, !.den = f.den \div 10])
             ELSE f

IndexOf(s, c) == IF HasChar(s, c) THEN CHOOSE i \in 1..Len(s) : s[i] = c /\ \A j \in 1..(i - 1) : s[j] # c
                 ELSE 0

\* float(s): optional surrounding whitespace, optional sign, digits with at
\* most one decimal point and at least one digit; anything else raises
\* ValueError (ok = FALSE).
float(s) ==
    LET body == Strip(s)
        signed == body # <<>> /\ Head(body) \in {"+", "-"}
        mag == IF signed THEN Tail(body) ELSE body
        dot == IndexOf(mag, ".")
        ip == IF dot = 0 THEN mag ELSE SubSeq(mag, 1, dot - 1)
        fp == IF dot = 0 THEN <<>> ELSE SubSeq(mag, dot + 1, Len(mag))
    IN IF AllDigits(ip) /\ AllDigits(fp) /\ Len(ip) + Len(fp) > 0
       THEN [ok |-> TRUE,
             value |-> Reduce([num |-> (IF signed /\ Head(body) = "-" THEN -1 ELSE 1)
                                       * (NumVal(ip) * Pow10(Len(fp)) + NumVal(fp)),
                               den |-> Pow10(Len(fp)),
                               neg |-> signed /\ Head(body) = "-"])]
       ELSE [ok |-> FALSE]

Abs(n) == IF n < 0 THEN -n ELSE n

DigitChar(n) == CHOOSE c \in Digits : DigitVal(c) = n

RECURSIVE NatStr(_)
NatStr(n) == IF n < 10 THEN <<DigitChar(n)>> ELSE NatStr(n \div 10) \o <<DigitChar(n % 10)>>

RECURSIVE ZeroPad(_, _)
ZeroPad(s, width) == IF Len(s) >= width THEN s ELSE ZeroPad(<<"0">> \o s, width)

\* str(x) of a float x in the range where Python prints it positionally
\* (1e-4 <= |x| < 1e16, or zero): '70.0', '69.4', '-0.0'
float_str(f) ==
    LET m == Abs(f.num) IN
    (IF f.neg THEN <<"-">> ELSE <<>>) \o NatStr(m \div f.den) \o <<".">>
    \o (IF f.den = 1 THEN <<"0">> ELSE ZeroPad(NatStr(m % f.den), Len(NatStr(f.den)) - 1))

\* f"{x}%"  (comparison.py:144, 161)
percent_str(f) == float_str(f) \o <<"%">>

RECURSIVE DigitRun(_)
DigitRun(s) == IF s # <<>> /\ Head(s) \in Digits THEN <<Head(s)>> \o DigitRun(Tail(s)) ELSE <<>>

RECURSIVE DropToDigit(_)
DropToDigit(s) == IF s = <<>> \/ Head(s) \in Digits THEN s ELSE DropToDigit(Tail(s))

\* The device-report percentage as "test comparaison.py" reads it (lines
\* 176-181): float(re.sub(r'[^\d.]', '', text)), decimals kept.
full_percentage(text) == float(KeepChars(text, Digits \cup {"."}))

\* BATTERY_LEVEL_PATTERN.search(text) with BATTERY_LEVEL_PATTERN = \d+
\* (comparison.py:9): the first run of digits of the text
BATTERY_LEVEL_PATTERN_search(text) ==
    LET run == DigitRun(DropToDigit(text)) IN
    IF run = <<>> THEN [ok |-> FALSE] ELSE [ok |-> TRUE, group |-> run]

\* the tolerance of comparison.py:162, in percentage points
battery_tolerance == 2

\* abs(a - b) <= battery_tolerance
within_tolerance(a, b) ==
    Abs(a.num * b.den - b.num * a.den) <= battery_tolerance * a.den * b.den

\* A variant of battery_except that swallows the exception: results built
\* with it are false matches without a message.
battery_except_silent(result, e) == result

\* except Exception as e: result['error'] = str(e)   (comparison.py:164-165)
battery_except(result, e) == ("error" :> e) @@ result

\* the device-report key compare_battery_level reads (comparison.py:146-149)
battery_aed_key ==
    IF dae_type = G5_TYPE THEN "Capacité restante de la batterie"
    ELSE "Capacité restante de la batterie 12V"

\* compare_battery_level(rvd, aed); reads st.session_state
compare_battery_level(rvd, aed) ==
    LET result == ("match" :> FALSE)
        rvd_batt_str == Get(rvd, "Niveau de charge de la batterie en %")
    IN IF ~Truthy(rvd_batt_str) \/ rvd_batt_str = NA
       THEN ("error" :> "Missing RVD battery data") @@ result
       ELSE LET rvd_batt == float(rvd_batt_str) IN
            IF ~rvd_batt.ok
            THEN battery_except(result, "could not convert string to float")
            ELSE LET result_rvd == ("rvd" :> percent_str(rvd_batt.value)) @@ result
                     aed_batt_text == Get(aed, battery_aed_key)
                 IN IF ~Truthy(aed_batt_text) \/ aed_batt_text = NA
                    THEN ("error" :> "Missing AED battery data") @@ result_rvd
                    ELSE LET match == BATTERY_LEVEL_PATTERN_search(aed_batt_text) IN
                         IF ~match.ok
                         THEN ("error" :> "Cannot extract battery level from AED data")
                              @@ result_rvd
                         ELSE LET aed_batt == float(match.group).value IN
                              ("aed" :> percent_str(aed_batt))
                              @@ ("match" :> within_tolerance(rvd_batt.value, aed_batt))
                              @@ result_rvd

---------------------------------------------------------------------------
(* comparison.py: compare_electrodes_section, compare_section *)

Oui == <<"O", "u", "i">>
Non == <<"N", "o", "n">>

\* The value of an electrode serial field for which "test comparaison.py"
\* (line 285) makes no comparison.
NOT_APPLICABLE == <<"N", "o", "n", " ", "t", "r", "o", "u", "v", "é">>

\* compare_electrodes_section(rvd, images, section_type)
compare_electrodes_section(rvd, images, section_type) ==
    LET image == get_image_by_type(images, "Electrodes")
        prefix == IF section_type = "adultes" THEN "ADULTES" ELSE "PEDIATRIQUES"
        serial_fields == <<"Numéro de série ELECTRODES " \o prefix,
                           "Numéro de série ELECTRODES " \o prefix \o " relevé">>
        date_fields == <<"Date de péremption ELECTRODES " \o prefix,
                         "Date de péremption ELECTRODES " \o prefix \o " relevée">>
    IN ("Numéro_de_série" :>
           compare_rvd_releve(Get(rvd, serial_fields[1]), Get(rvd, serial_fields[2]),
                              None, image_get(image, "serial"), "normalize_serial"))
       @@ ("date_de_péremption" :>
           compare_dates_with_releve(Get(rvd, date_fields[1]), Get(rvd, date_fields[2]),
                                     None, image_get(image, "date")))

\* A variant of battery_serial_field that ignores 'Changement batterie':
\* sections built with it always read the original serial.
battery_serial_field_original(rvd) == "Numéro de série Batterie"

\* battery_serial_field of compare_section (comparison.py:231-232)
battery_serial_field(rvd) ==
    IF Get(rvd, "Changement batterie") = Non
    THEN "Numéro de série Batterie"
    ELSE "N° série nouvelle batterie"

\* A variant of pediatric_changed that reads the adult flag: sections built
\* with it tie the pediatric comparison to the adult electrodes' flag.
pediatric_changed_by_adult_flag(rvd) == Get(rvd, "Changement électrodes adultes") = Oui

\* the test of comparison.py:263
pediatric_changed(rvd) == Get(rvd, "Changement électrodes pédiatriques") = Oui

\* compare_section(section, rvd, aed, images)
compare_section(section, rvd, aed, images) ==
    IF section = "defibrillateur"
    THEN LET image == get_image_by_type(images, "Defibrillateur G5") IN
         ("Numéro de série" :>
             compare_rvd_releve(Get(rvd, "Numéro de série DEFIBRILLATEUR"),
                                Get(rvd, "Numéro de série relevé"),
                                get_dae_field(aed, "N° série DAE", "Série DSA"),
                                image_get(image, "serial"), "normalize_serial"))
         @@ ("date de fabrication" :>
             compare_dates_with_releve(Get(rvd, "Date fabrication DEFIBRILLATEUR"),
                                       Get(rvd, "Date fabrication relevée"),
                                       None, image_get(image, "date")))
         @@ ("Date de rapport" :>
             compare_dates_with_releve(
                 Get(rvd, "Date-Heure rapport vérification défibrillateur"), None,
                 get_dae_field(aed, "Date / Heure:", "Date de mise en service"), None))
    ELSE IF section = "batterie"
    THEN LET image == get_image_by_type(images, "Batterie") IN
         ("Numéro de série" :>
             compare_rvd_releve(Get(rvd, battery_serial_field(rvd)),
                                Get(rvd, "Numéro de série relevé 2"),
                                None, image_get(image, "serial"), "normalize_serial"))
         @@ ("Date de fabrication" :>
             compare_dates_with_releve(Get(rvd, "Date fabrication BATTERIE"),
                                       Get(rvd, "Date fabrication BATTERIE relevée"),
                                       None, image_get(image, "date")))
         @@ ("installation_date" :>
             compare_dates_with_releve(
                 Get(rvd, "Date mise en service BATTERIE"),
                 Get(rvd, "Date mise en service BATTERIE relevée"),
                 get_dae_field(aed, "Date d'installation :",
                               "Date de mise en service batterie"), None))
         @@ ("battery_level" :> compare_battery_level(rvd, aed))
    ELSE IF section = "electrodes"
    THEN ("adultes" :> compare_electrodes_section(rvd, images, "adultes"))
         @@ ("pediatriques" :>
             IF pediatric_changed(rvd)
             THEN compare_electrodes_section(rvd, images, "pediatriques")
             ELSE EmptyDict)
    ELSE EmptyDict

---------------------------------------------------------------------------
(* comparison.py: compare_data, over st.session_state *)

\* the sections of results, in the order of results.keys() (comparison.py:274-278)
sections == <<"defibrillateur", "batterie", "electrodes">>

\* results of compare_data before any section is compared
empty_results == [s \in {sections[i] : i \in 1..Len(sections)} |-> EmptyDict]

\* f'AEDG{st.session_state.dae_type[-1]}'  (comparison.py:284)
aed_type_key == IF dae_type = G5_TYPE THEN "AEDG5" ELSE "AEDG3"

\* not st.session_state.processed_data.get('RVD')  (comparison.py:286)
rvd_missing == GetOr(processed_data, "RVD", EmptyDict) = EmptyDict

\* results after the loop of comparison.py:294-295
compare_all_sections ==
    LET rvd == GetOr(processed_data, "RVD", EmptyDict)
        aed == GetOr(processed_data, aed_type_key, EmptyDict)
        images == GetOr(processed_data, "images", <<>>)
    IN [s \in DOMAIN empty_results |-> compare_section(s, rvd, aed, images)]

\* A variant of compare_data_results without the test for a missing RVD:
\* it compares the sections of an empty RVD.
compare_data_results_unguarded == compare_all_sections

\* the value compare_data returns
compare_data_results == IF rvd_missing THEN empty_results ELSE compare_all_sections

\* A variant of compare_data_store that also empties the images,
\* a change outside the stored comparisons.
compare_data_store_clearing_images(results) ==
    ("images" :> <<>>) @@ ("comparisons" :> results) @@ processed_data

\* st.session_state.processed_data after compare_data (comparison.py:286-297)
compare_data_store(results) ==
    IF rvd_missing THEN processed_data
    ELSE ("comparisons" :> results) @@ processed_data

---------------------------------------------------------------------------
(* extraction.py: the keys of the documents the extractors return *)

\* keywords of extract_rvd_data: the keys of every RVD document
rvd_keywords == {
    "Commentaire fin d'intervention et recommandations",
    "Date-Heure rapport vérification défibrillateur",
    "Code du site",
    "Numéro de série DEFIBRILLATEUR",
    "Numéro de série relevé",
    "Date fabrication DEFIBRILLATEUR",
    "Date fabrication relevée",
    "Numéro de série Batterie",
    "Numéro de série relevé 2",
    "Date fabrication BATTERIE",
    "Date fabrication BATTERIE relevée",
    "Date mise en service BATTERIE",
    "Date mise en service BATTERIE relevée",
    "Niveau de charge de la batterie en %",
    "Changement batterie",
    "N° série nouvelle batterie",
    "Date mise en service",
    "Date de mise en service de la nouvelle batterie",
    "Date fabrication nouvelle batterie",
    "Niveau de charge nouvelle batterie",
    "Numéro de série ELECTRODES ADULTES",
    "Numéro de série ELECTRODES ADULTES relevé",
    "Date de péremption ELECTRODES ADULTES",
    "Date de péremption ELECTRODES ADULTES relevée",
    "Changement électrodes adultes",
    "N° série nouvelles électrodes",
    "Date péremption des nouvelles éléctrodes",
    "Numéro de série ELECTRODES PEDIATRIQUES",
    "Numéro de série ELECTRODES PEDIATRIQUES relevé",
    "Date de péremption ELECTRODES PEDIATRIQUES",
    "Date de péremption ELECTRODES PEDIATRIQUES relevée" }

---------------------------------------------------------------------------
(* extraction.py: extract_rvd_data.  A text is a sequence of characters,    *)
(* "\n" between its lines.                                                  *)

\* the keywords of extract_rvd_data, in its order (extraction.py:26-64)
keywords == <<
    <<"C", "o", "m", "m", "e", "n", "t", "a", "i", "r", "e", " ", "f", "i", "n", " ", "d", "'", "i", "n", "t", "e", "r", "v", "e", "n", "t", "i", "o", "n", " ", "e", "t", " ", "r", "e", "c", "o", "m", "m", "a", "n", "d", "a", "t", "i", "o", "n", "s">>,
    <<"D", "a", "t", "e", "-", "H", "e", "u", "r", "e", " ", "r", "a", "p", "p", "o", "r", "t", " ", "v", "é", "r", "i", "f", "i", "c", "a", "t", "i", "o", "n", " ", "d", "é", "f", "i", "b", "r", "i", "l", "l", "a", "t", "e", "u", "r">>,
    <<"C", "o", "d", "e", " ", "d", "u", " ", "s", "i", "t", "e">>,
    <<"N", "u", "m", "é", "r", "o", " ", "d", "e", " ", "s", "é", "r", "i", "e", " ", "D", "E", "F", "I", "B", "R", "I", "L", "L", "A", "T", "E", "U", "R">>,
    <<"N", "u", "m", "é", "r", "o", " ", "d", "e", " ", "s", "é", "r", "i", "e", " ", "r", "e", "l", "e", "v", "é">>,
    <<"D", "a", "t", "e", " ", "f", "a", "b", "r", "i", "c", "a", "t", "i", "o", "n", " ", "D", "E", "F", "I", "B", "R", "I", "L", "L", "A", "T", "E", "U", "R">>,
    <<"D", "a", "t", "e", " ", "f", "a", "b", "r", "i", "c", "a", "t", "i", "o", "n", " ", "r", "e", "l", "e", "v", "é", "e">>,
    <<"N", "u", "m", "é", "r", "o", " ", "d", "e", " ", "s", "é", "r", "i", "e", " ", "B", "a", "t", "t", "e", "r", "i", "e">>,
    <<"N", "u", "m", "é", "r", "o", " ", "d", "e", " ", "s", "é", "r", "i", "e", " ", "r", "e", "l", "e", "v", "é", " ", "2">>,
    <<"D", "a", "t", "e", " ", "f", "a", "b", "r", "i", "c", "a", "t", "i", "o", "n", " ", "B", "A", "T", "T", "E", "R", "I", "E">>,
    <<"D", "a", "t", "e", " ", "f", "a", "b", "r", "i", "c", "a", "t", "i", "o", "n", " ", "B", "A", "T", "T", "E", "R", "I", "E", " ", "r", "e", "l", "e", "v", "é", "e">>,
    <<"D", "a", "t", "e", " ", "m", "i", "s", "e", " ", "e", "n", " ", "s", "e", "r", "v", "i", "c", "e", " ", "B", "A", "T", "T", "E", "R", "I", "E">>,
    <<"D", "a", "t", "e", " ", "m", "i", "s", "e", " ", "e", "n", " ", "s", "e", "r", "v", "i", "c", "e", " ", "B", "A", "T", "T", "E", "R", "I", "E", " ", "r", "e", "l", "e", "v", "é", "e">>,
    <<"N", "i", "v", "e", "a", "u", " ", "d", "e", " ", "c", "h", "a", "r", "g", "e", " ", "d", "e", " ", "l", "a", " ", "b", "a", "t", "t", "e", "r", "i", "e", " ", "e", "n", " ", "%">>,
    <<"C", "h", "a", "n", "g", "e", "m", "e", "n", "t", " ", "b", "a", "t", "t", "e", "r", "i", "e">>,
    <<"N", "°", " ", "s", "é", "r", "i", "e", " ", "n", "o", "u", "v", "e", "l", "l", "e", " ", "b", "a", "t", "t", "e", "r", "i", "e">>,
    <<"D", "a", "t", "e", " ", "m", "i", "s", "e", " ", "e", "n", " ", "s", "e", "r", "v", "i", "c", "e">>,
    <<"D", "a", "t", "e", " ", "d", "e", " ", "m", "i", "s", "e", " ", "e", "n", " ", "s", "e", "r", "v", "i", "c", "e", " ", "d", "e", " ", "l", "a", " ", "n", "o", "u", "v", "e", "l", "l", "e", " ", "b", "a", "t", "t", "e", "r", "i", "e">>,
    <<"D", "a", "t", "e", " ", "f", "a", "b", "r", "i", "c", "a", "t", "i", "o", "n", " ", "n", "o", "u", "v", "e", "l", "l", "e", " ", "b", "a", "t", "t", "e", "r", "i", "e">>,
    <<"N", "i", "v", "e", "a", "u", " ", "d", "e", " ", "c", "h", "a", "r", "g", "e", " ", "n", "o", "u", "v", "e", "l", "l", "e", " ", "b", "a", "t", "t", "e", "r", "i", "e">>,
    <<"N", "u", "m", "é", "r", "o", " ", "d", "e", " ", "s", "é", "r", "i", "e", " ", "E", "L", "E", "C", "T", "R", "O", "D", "E", "S", " ", "A", "D", "U", "L", "T", "E", "S">>,
    <<"N", "u", "m", "é", "r", "o", " ", "d", "e", " ", "s", "é", "r", "i", "e", " ", "E", "L", "E", "C", "T", "R", "O", "D", "E", "S", " ", "A", "D", "U", "L", "T", "E", "S", " ", "r", "e", "l", "e", "v", "é">>,
    <<"D", "a", "t", "e", " ", "d", "e", " ", "p", "é", "r", "e", "m", "p", "t", "i", "o", "n", " ", "E", "L", "E", "C", "T", "R", "O", "D", "E", "S", " ", "A", "D", "U", "L", "T", "E", "S">>,
    <<"D", "a", "t", "e", " ", "d", "e", " ", "p", "é", "r", "e", "m", "p", "t", "i", "o", "n", " ", "E", "L", "E", "C", "T", "R", "O", "D", "E", "S", " ", "A", "D", "U", "L", "T", "E", "S", " ", "r", "e", "l", "e", "v", "é", "e">>,
    <<"C", "h", "a", "n", "g", "e", "m", "e", "n", "t", " ", "é", "l", "e", "c", "t", "r", "o", "d", "e", "s", " ", "a", "d", "u", "l", "t", "e", "s">>,
    <<"N", "°", " ", "s", "é", "r", "i", "e", " ", "n", "o", "u", "v", "e", "l", "l", "e", "s", " ", "é", "l", "e", "c", "t", "r", "o", "d", "e", "s">>,
    <<"D", "a", "t", "e", " ", "p", "é", "r", "e", "m", "p", "t", "i", "o", "n", " ", "d", "e", "s", " ", "n", "o", "u", "v", "e", "l", "l", "e", "s", " ", "é", "l", "é", "c", "t", "r", "o", "d", "e", "s">>,
    <<"N", "u", "m", "é", "r", "o", " ", "d", "e", " ", "s", "é", "r", "i", "e", " ", "E", "L", "E", "C", "T", "R", "O", "D", "E", "S", " ", "P", "E", "D", "I", "A", "T", "R", "I", "Q", "U", "E", "S">>,
    <<"N", "u", "m", "é", "r", "o", " ", "d", "e", " ", "s", "é", "r", "i", "e", " ", "E", "L", "E", "C", "T", "R", "O", "D", "E", "S", " ", "P", "E", "D", "I", "A", "T", "R", "I", "Q", "U", "E", "S", " ", "r", "e", "l", "e", "v", "é">>,
    <<"D", "a", "t", "e", " ", "d", "e", " ", "p", "é", "r", "e", "m", "p", "t", "i", "o", "n", " ", "E", "L", "E", "C", "T", "R", "O", "D", "E", "S", " ", "P", "E", "D", "I", "A", "T", "R", "I", "Q", "U", "E", "S">>,
    <<"D", "a", "t", "e", " ", "d", "e", " ", "p", "é", "r", "e", "m", "p", "t", "i", "o", "n", " ", "E", "L", "E", "C", "T", "R", "O", "D", "E", "S", " ", "P", "E", "D", "I", "A", "T", "R", "I", "Q", "U", "E", "S", " ", "r", "e", "l", "e", "v", "é", "e">> >>

\* the keywords as the keys of results, in the same order
keyword_keys == <<
    "Commentaire fin d'intervention et recommandations",
    "Date-Heure rapport vérification défibrillateur",
    "Code du site",
    "Numéro de série DEFIBRILLATEUR",
    "Numéro de série relevé",
    "Date fabrication DEFIBRILLATEUR",
    "Date fabrication relevée",
    "Numéro de série Batterie",
    "Numéro de série relevé 2",
    "Date fabrication BATTERIE",
    "Date fabrication BATTERIE relevée",
    "Date mise en service BATTERIE",
    "Date mise en service BATTERIE relevée",
    "Niveau de charge de la batterie en %",
    "Changement batterie",
    "N° série nouvelle batterie",
    "Date mise en service",
    "Date de mise en service de la nouvelle batterie",
    "Date fabrication nouvelle batterie",
    "Niveau de charge nouvelle batterie",
    "Numéro de série ELECTRODES ADULTES",
    "Numéro de série ELECTRODES ADULTES relevé",
    "Date de péremption ELECTRODES ADULTES",
    "Date de péremption ELECTRODES ADULTES relevée",
    "Changement électrodes adultes",
    "N° série nouvelles électrodes",
    "Date péremption des nouvelles éléctrodes",
    "Numéro de série ELECTRODES PEDIATRIQUES",
    "Numéro de série ELECTRODES PEDIATRIQUES relevé",
    "Date de péremption ELECTRODES PEDIATRIQUES",
    "Date de péremption ELECTRODES PEDIATRIQUES relevée" >>

\* \s of the regular expressions, str.strip() and str.split()
Whitespace == {" ", "\t", "\n"}

Letters == {UpperCase[i] : i \in 1..Len(UpperCase)} \cup {LowerCase[i] : i \in 1..Len(LowerCase)}

\* the characters str.lower() changes, among those of the texts modelled
lower_map ==
    ("A" :> "a") @@ ("B" :> "b") @@ ("C" :> "c") @@ ("D" :> "d") @@ ("E" :> "e") @@ ("F" :> "f")
    @@ ("G" :> "g") @@ ("H" :> "h") @@ ("I" :> "i") @@ ("J" :> "j") @@ ("K" :> "k") @@ ("L" :> "l")
    @@ ("M" :> "m") @@ ("N" :> "n") @@ ("O" :> "o") @@ ("P" :> "p") @@ ("Q" :> "q") @@ ("R" :> "r")
    @@ ("S" :> "s") @@ ("T" :> "t") @@ ("U" :> "u") @@ ("V" :> "v") @@ ("W" :> "w") @@ ("X" :> "x")
    @@ ("Y" :> "y") @@ ("Z" :> "z") @@ ("É" :> "é") @@ ("È" :> "è") @@ ("Ê" :> "ê") @@ ("À" :> "à")
    @@ ("Ç" :> "ç")

\* str.lower()
lower(s) == [i \in 1..Len(s) |-> IF s[i] \in DOMAIN lower_map THEN lower_map[s[i]] ELSE s[i]]

\* s[j:].startswith(p), positions from 1
MatchesAt(s, j, p) == j + Len(p) - 1 <= Len(s) /\ SubSeq(s, j, j + Len(p) - 1) = p

\* the first position from which p occurs in s, 0 when `p in s` is false
Find(s, p) ==
    LET at == {j \in 1..(Len(s) - Len(p) + 1) : MatchesAt(s, j, p)}
    IN IF at = {} THEN 0 ELSE CHOOSE j \in at : \A h \in at : j <= h

\* p in s
Contains(s, p) == \E j \in 1..(Len(s) - Len(p) + 1) : MatchesAt(s, j, p)

\* the last position of the longest run of characters of `chars` that starts
\* at j (j - 1 when the run is empty): a greedy [chars]*
SpanEnd(s, j, chars) ==
    IF j > Len(s) THEN j - 1
    ELSE CHOOSE e \in (j - 1)..Len(s) :
            /\ \A i \in j..e : s[i] \in chars
            /\ e = Len(s) \/ s[e + 1] \notin chars

\* str.strip()
strip(s) ==
    LET first == SpanEnd(s, 1, Whitespace) + 1
        last == IF first > Len(s) THEN Len(s)
                ELSE CHOOSE e \in first..Len(s) :
                        s[e] \notin Whitespace /\ \A i \in (e + 1)..Len(s) : s[i] \in Whitespace
    IN SubSeq(s, first, last)

\* str.split()[0] of a string that is not blank
split_first(s) ==
    \* the characters of s that are not whitespace
    LET NonSpace == {s[i] : i \in 1..Len(s)} \ Whitespace
        first == SpanEnd(s, 1, Whitespace) + 1
    IN SubSeq(s, first, SpanEnd(s, first, NonSpace))

\* text.splitlines(), for texts whose only line boundary is "\n"
splitlines(text) ==
    LET starts == {j \in 1..Len(text) : j = 1 \/ text[j - 1] = "\n"}
        start(k) == CHOOSE j \in starts : Cardinality({h \in starts : h < j}) = k - 1
    IN [k \in 1..Cardinality(starts) |->
          SubSeq(text, start(k),
                 SpanEnd(text, start(k), {text[i] : i \in 1..Len(text)} \ {"\n"}))]

\* [\s:]* of the patterns
SeparatorChars == Whitespace \cup {":"}

\* [A-Za-z0-9\-] of the serial pattern
SerialChars == Letters \cup Digits \cup {"-"}

\* any(x in keyword.lower() for x in ["n° série", "numéro de série"])
is_serial_keyword(keyword) ==
    \/ Contains(lower(keyword), <<"n", "°", " ", "s", "é", "r", "i", "e">>)
    \/ Contains(lower(keyword), <<"n", "u", "m", "é", "r", "o", " ", "d", "e", " ",
                                  "s", "é", "r", "i", "e">>)

\* get_next_valid_line(lines, current_index, keyword), indices from 1
get_next_valid_line(lines, current_index) ==
    IF current_index + 1 <= Len(lines)
    THEN LET next_line == strip(lines[current_index + 1])
         IN IF next_line # <<>>
               /\ ~\E k \in 1..Len(keywords) : Contains(lower(next_line), lower(keywords[k]))
            THEN next_line
            ELSE <<>>
    ELSE <<>>

\* the value of the loop over the lines (extraction.py:68, 76-86); the
\* branches for the keyword "code site" (71, 88) are never taken, no keyword
\* being "code site"
line_value(keyword, lines) ==
    \* pattern.search(stripped_line) of any other keyword (extraction.py:74):
    \* keyword, [\s:]*, then the rest of the line; case matters
    LET other_pattern_search(line) ==
            LET j == Find(line, keyword)
            IN IF j = 0 THEN [ok |-> FALSE]
               ELSE [ok |-> TRUE,
                     group |-> SubSeq(line, SpanEnd(line, j + Len(keyword), SeparatorChars) + 1,
                                      Len(line))]
        \* pattern.search(stripped_line) of a serial keyword (extraction.py:70):
        \* keyword, [\s:]*, a token of SerialChars that whitespace or the end of the
        \* line follows; case is ignored.  A shorter token or a shorter separator run
        \* cannot match where the longest ones do not.
        serial_pattern_search(line) ==
            LET at(j) ==
                    LET t == SpanEnd(line, j + Len(keyword), SeparatorChars) + 1
                        e == SpanEnd(line, t, SerialChars)
                    IN [ok |-> e >= t /\ (e = Len(line) \/ line[e + 1] \in Whitespace),
                        group |-> SubSeq(line, t, e)]
                found == {j \in 1..Len(line) : MatchesAt(lower(line), j, lower(keyword)) /\ at(j).ok}
            IN IF found = {} THEN [ok |-> FALSE]
               ELSE at(CHOOSE j \in found : \A h \in found : j <= h)
        hits == {i \in 1..Len(lines) : MatchesAt(lower(strip(lines[i])), 1, lower(keyword))}
    IN IF hits = {} THEN <<>>
       ELSE LET i == CHOOSE h \in hits : \A g \in hits : h <= g
                stripped_line == strip(lines[i])
            IN IF is_serial_keyword(keyword)
               THEN LET match == serial_pattern_search(stripped_line)
                    IN IF match.ok THEN split_first(strip(match.group))
                       ELSE get_next_valid_line(lines, i)
               ELSE LET match == other_pattern_search(stripped_line)
                    IN IF match.ok THEN strip(match.group)
                       ELSE get_next_valid_line(lines, i)

\* \d{2}[/-]\d{2}[/-]\d{4} at position j
DateAt(s, j) ==
    /\ j + 9 <= Len(s)
    /\ \A i \in {0, 1, 3, 4, 6, 7, 8, 9} : s[j + i] \in Digits
    /\ s[j + 2] \in {"/", "-"} /\ s[j + 5] \in {"/", "-"}

\* the clean-up of a value that is not empty (extraction.py:94-99)
cleaned_value(keyword, value) ==
    \* re.sub(r'\s*(?:Vérification|Validation).*$', '', value): the value up to
    \* the whitespace before the first of the two words
    LET without_verification ==
            LET words == {<<"V", "é", "r", "i", "f", "i", "c", "a", "t", "i", "o", "n">>,
                          <<"V", "a", "l", "i", "d", "a", "t", "i", "o", "n">>}
                at == {j \in 1..Len(value) : \E w \in words : MatchesAt(value, j, w)}
            IN IF at = {} THEN value
               ELSE LET first == CHOOSE j \in at : \A h \in at : j <= h
                        cut == CHOOSE q \in 1..first :
                                  /\ \A i \in q..(first - 1) : value[i] \in Whitespace
                                  /\ q = 1 \/ value[q - 1] \notin Whitespace
                    IN SubSeq(value, 1, cut - 1)
        \* re.search(r'\d{2}[/-]\d{2}[/-]\d{4}(?:\s+\d{2}:\d{2})?', value).group(0)
        date_in(dated) ==
            \* the position after (?:\s+\d{2}:\d{2})? tried from position j
            LET TimeEnd(s, j) ==
                    LET t == SpanEnd(s, j, Whitespace) + 1
                    IN IF /\ t > j /\ t + 4 <= Len(s)
                          /\ \A i \in {0, 1, 3, 4} : s[t + i] \in Digits
                          /\ s[t + 2] = ":"
                       THEN t + 5 ELSE j
            IN
            LET at == {h \in 1..Len(dated) : DateAt(dated, h)}
                j == CHOOSE h \in at : \A g \in at : h <= g
            IN SubSeq(dated, j, TimeEnd(dated, j + 10) - 1)
    IN
    IF value = <<>> THEN value
    ELSE LET v == without_verification
         IN IF Contains(lower(keyword), <<"d", "a", "t", "e">>)
               /\ \E j \in 1..Len(v) : DateAt(v, j)
            THEN date_in(v)
            ELSE IF Contains(keyword, <<"%">>)
            THEN SelectSeq(v, LAMBDA c : c \in Digits \cup {"."})
            ELSE v

\* extract_rvd_data(text): results[keyword] for every keyword
extract_rvd_data(text) ==
    [key \in {keyword_keys[k] : k \in 1..Len(keywords)} |->
        LET keyword == keywords[CHOOSE k \in 1..Len(keywords) : keyword_keys[k] = key]
        IN cleaned_value(keyword, line_value(keyword, splitlines(text)))]

---------------------------------------------------------------------------
(* extraction.py: extract_aed_g5_data and extract_aed_g3_data               *)

\* the end of the line that holds position j: a greedy [^\n]* from j
RestOfLineEnd(s, j) == SpanEnd(s, j, {s[i] : i \in 1..Len(s)} \ {"\n"})

\* \d{2}/\d{2}/\d{4} at position j
SlashDateAt(s, j) ==
    /\ j + 9 <= Len(s)
    /\ \A i \in {0, 1, 3, 4, 6, 7, 8, 9} : s[j + i] \in Digits
    /\ s[j + 2] = "/" /\ s[j + 5] = "/"

\* \d{2}:\d{2}:\d{2} at position j
ClockAt(s, j) ==
    /\ j + 7 <= Len(s)
    /\ \A i \in {0, 1, 3, 4, 6, 7} : s[j + i] \in Digits
    /\ s[j + 2] = ":" /\ s[j + 5] = ":"

\* [0-9A-Fa-f]
HexChars == Digits \cup {"a", "b", "c", "d", "e", "f", "A", "B", "C", "D", "E", "F"}

\* r"(\d{2}/\d{2}/\d{4} \d{2}:\d{2}:\d{2})\s+(0x[0-9A-Fa-f]+)" tried at
\* position j (extraction.py:135): the groups and the last position matched
g5_error_at(s, j) ==
    IF SlashDateAt(s, j) /\ MatchesAt(s, j + 10, <<" ">>) /\ ClockAt(s, j + 11)
    THEN LET w == SpanEnd(s, j + 19, Whitespace)
         IN IF w >= j + 19 /\ MatchesAt(s, w + 1, <<"0", "x">>)
                           /\ SpanEnd(s, w + 3, HexChars) >= w + 3
            THEN [ok |-> TRUE, end |-> SpanEnd(s, w + 3, HexChars),
                  groups |-> <<SubSeq(s, j, j + 18),
                               SubSeq(s, w + 1, SpanEnd(s, w + 3, HexChars))>>]
            ELSE NoMatch
    ELSE NoMatch

\* r"(Code d'erreur \w+)\s+(\d{2}/\d{2}/\d{4})\s+(\d{2}:\d{2}:\d{2})" tried at
\* position j (extraction.py:216)
g3_error_at(s, j) ==
    \* \w, among the characters of the texts modelled
    LET WordChars == Letters \cup Digits \cup {"_"} \cup DOMAIN lower_map
                     \cup {lower_map[c] : c \in DOMAIN lower_map}
        prefix == <<"C", "o", "d", "e", " ", "d", "'", "e", "r", "r", "e", "u", "r", " ">>
    IN IF MatchesAt(s, j, prefix)
       THEN LET c == SpanEnd(s, j + Len(prefix), WordChars)
                d == SpanEnd(s, c + 1, Whitespace) + 1
                t == SpanEnd(s, d + 10, Whitespace) + 1
            IN IF /\ c >= j + Len(prefix)
                  /\ d > c + 1 /\ SlashDateAt(s, d)
                  /\ t > d + 10 /\ ClockAt(s, t)
               THEN [ok |-> TRUE, end |-> t + 7,
                     groups |-> <<SubSeq(s, j, c), SubSeq(s, d, d + 9), SubSeq(s, t, t + 7)>>]
               ELSE NoMatch
       ELSE NoMatch

\* r"Aucune erreur trouvée\s*(\d{2}/\d{2}/\d{4})\s+(\d{2}:\d{2}:\d{2})" tried
\* at position j (extraction.py:221)
date_pattern_at(s, j) ==
    LET phrase == <<"A", "u", "c", "u", "n", "e", " ", "e", "r", "r", "e", "u", "r", " ", "t", "r", "o", "u", "v", "é", "e">>
    IN IF MatchesAt(s, j, phrase)
       THEN LET d == SpanEnd(s, j + Len(phrase), Whitespace) + 1
                t == SpanEnd(s, d + 10, Whitespace) + 1
            IN IF SlashDateAt(s, d) /\ t > d + 10 /\ ClockAt(s, t)
               THEN [ok |-> TRUE, end |-> t + 7,
                     groups |-> <<SubSeq(s, d, d + 9), SubSeq(s, t, t + 7)>>]
               ELSE NoMatch
       ELSE NoMatch

\* re.findall(pattern, text) from position pos on: the groups of the
\* leftmost match, then those of the matches after its end
RECURSIVE findall_from(_, _, _)
findall_from(pattern, text, pos) ==
    LET pattern_at(s, j) ==
            CASE pattern = "g5_errors" -> g5_error_at(s, j)
              [] pattern = "g3_errors" -> g3_error_at(s, j)
              [] pattern = "date_pattern" -> date_pattern_at(s, j)
        at == {j \in pos..Len(text) : pattern_at(text, j).ok}
    IN IF at = {} THEN <<>>
       ELSE CHOOSE found \in
                {<<m.groups>> \o findall_from(pattern, text, m.end + 1) :
                    m \in {pattern_at(text, CHOOSE j \in at : \A h \in at : j <= h)}} :
                TRUE

\* the matches of re.findall(pattern, text), the last one first
findall_reversed(pattern, text) ==
    [i \in 1..Len(findall_from(pattern, text, 1)) |->
        findall_from(pattern, text, 1)[Len(findall_from(pattern, text, 1)) + 1 - i]]

findall(pattern, text) == findall_from(pattern, text, 1)

\* what a call that raises leaves to its caller
Raised(exception, message) == [raised |-> exception, message |-> message]

\* the message of the TypeError that re raises for a text that is None
TypeErrorMessage ==
    <<"e", "x", "p", "e", "c", "t", "e", "d", " ", "s", "t", "r", "i", "n", "g", " ", "o", "r", " ", "b", "y", "t", "e", "s", "-", "l", "i", "k", "e", " ", "o", "b", "j", "e", "c", "t", ",", " ", "g", "o", "t", " ", "'", "N", "o", "n", "e", "T", "y", "p", "e", "'">>

\* the message of the ZeroDivisionError of a float division
ZeroDivisionMessage == <<"f", "l", "o", "a", "t", " ", "d", "i", "v", "i", "s", "i", "o", "n", " ", "b", "y", " ", "z", "e", "r", "o">>

g5_keywords == <<
    <<"N", "°", " ", "s", "é", "r", "i", "e", " ", "D", "A", "E">>,
    <<"C", "a", "p", "a", "c", "i", "t", "é", " ", "r", "e", "s", "t", "a", "n", "t", "e", " ", "d", "e", " ", "l", "a", " ", "b", "a", "t", "t", "e", "r", "i", "e">>,
    <<"D", "a", "t", "e", " ", "d", "'", "i", "n", "s", "t", "a", "l", "l", "a", "t", "i", "o", "n", " ", ":">>,
    <<"R", "a", "p", "p", "o", "r", "t", " ", "D", "A", "E", " ", "-", " ", "E", "r", "r", "e", "u", "r", "s", " ", "e", "n", " ", "c", "o", "u", "r", "s">>,
    <<"D", "a", "t", "e", " ", "/", " ", "H", "e", "u", "r", "e", ":">> >>

g5_keyword_keys == <<"N° série DAE", "Capacité restante de la batterie", "Date d'installation :",
                     "Rapport DAE - Erreurs en cours", "Date / Heure:">>

\* extract_aed_g5_data(text): a key for every keyword found, and "errors";
\* the searches raise TypeError for a text that is not a string
extract_aed_g5_data(text) ==
    \* re.compile(re.escape(keyword) + r"[\s:]*([^\n]*)").search(text)
    \* (extraction.py:129-130): the separators may run over line ends
    LET g5_keyword_search(keyword) ==
            LET j == Find(text, keyword)
            IN IF j = 0 THEN NoMatch
               ELSE [ok |-> TRUE,
                     group |-> SubSeq(text, SpanEnd(text, j + Len(keyword), SeparatorChars) + 1,
                                      RestOfLineEnd(text,
                                          SpanEnd(text, j + Len(keyword), SeparatorChars) + 1))]
    IN
    IF text = None THEN Raised("TypeError", TypeErrorMessage)
    ELSE LET found == {k \in 1..Len(g5_keywords) : g5_keyword_search(g5_keywords[k]).ok}
         IN [key \in {g5_keyword_keys[k] : k \in found} \cup {"errors"} |->
                IF key = "errors" THEN findall("g5_errors", text)
                ELSE strip(g5_keyword_search(
                         g5_keywords[CHOOSE k \in found : g5_keyword_keys[k] = key]).group)]

g3_keywords == <<
    <<"S", "é", "r", "i", "e", " ", "D", "S", "A">>,
    <<"D", "e", "r", "n", "i", "e", "r", " ", "é", "c", "h", "e", "c", " ", "d", "e", " ", "D", "S", "A">>,
    <<"N", "u", "m", "é", "r", "o", " ", "d", "e", " ", "l", "o", "t">>,
    <<"D", "a", "t", "e", " ", "d", "e", " ", "m", "i", "s", "e", " ", "e", "n", " ", "s", "e", "r", "v", "i", "c", "e">>,
    <<"A", "u", "t", "o", "t", "e", "s", "t">> >>

g3_keyword_keys == <<"Série DSA", "Dernier échec de DSA", "Numéro de lot",
                     "Date de mise en service", "Autotest">>

\* results[key] of the loop over the keywords (extraction.py:172-190)
g3_keyword_value(key, keyword, text) ==
    LET g3_keyword_search ==
            \* re.search(f"{pattern_escaped}\\s*:\\s*([^\\n]+)", text) tried where the
            \* keyword starts at position j (extraction.py:174-176).  The group needs one
            \* character: when the whitespace after the colon runs to the end of the
            \* text, \s* gives back characters until one is not a line end.
            LET g3_keyword_at(j) ==
                    LET colon == SpanEnd(text, j + Len(keyword), Whitespace) + 1
                        w == SpanEnd(text, colon + 1, Whitespace)
                        given_back == {k \in (colon + 1)..w : text[k] # "\n"}
                    IN IF ~MatchesAt(text, j, keyword) \/ ~MatchesAt(text, colon, <<":">>) THEN NoMatch
                       ELSE IF w < Len(text)
                       THEN [ok |-> TRUE, group |-> SubSeq(text, w + 1, RestOfLineEnd(text, w + 1))]
                       ELSE IF given_back # {}
                       THEN [ok |-> TRUE,
                             group |-> LET k == CHOOSE g \in given_back : \A h \in given_back : h <= g
                                       IN SubSeq(text, k, RestOfLineEnd(text, k))]
                       ELSE NoMatch
            IN
            LET at == {j \in 1..Len(text) : g3_keyword_at(j).ok}
            IN IF at = {} THEN NoMatch
               ELSE g3_keyword_at(CHOOSE j \in at : \A h \in at : j <= h)
        match == g3_keyword_search
    IN IF ~match.ok THEN <<>>
       ELSE LET value == strip(match.group)
            IN IF key = "Série DSA" /\ value # <<>> /\ Head(value) = "0" THEN Tail(value)
               ELSE IF key = "Numéro de lot" /\ Len(value) > 5
               THEN SubSeq(value, 1, 5) \o <<"-">> \o SubSeq(value, 6, Len(value))
               ELSE value

\* re.search(label + r"\s*:\s*(\d+)\s*mAh", text) (extraction.py:193-194):
\* the digits of the first place where the whole pattern matches
capacity_search(label, text) ==
    LET at(j) ==
            LET colon == SpanEnd(text, j + Len(label), Whitespace) + 1
                d == SpanEnd(text, colon + 1, Whitespace) + 1
                e == SpanEnd(text, d, Digits)
            IN [ok |-> /\ MatchesAt(text, j, label) /\ MatchesAt(text, colon, <<":">>)
                       /\ e >= d
                       /\ MatchesAt(text, SpanEnd(text, e + 1, Whitespace) + 1,
                                    <<"m", "A", "h">>),
                group |-> SubSeq(text, d, e)]
        found == {j \in 1..Len(text) : at(j).ok}
    IN IF found = {} THEN NoMatch
       ELSE at(CHOOSE j \in found : \A h \in found : j <= h)

\* f"{x:.2f}" of the float x nearest to num / den, for num >= 0, den > 0 and
\* a quotient that is not halfway between two hundredths (there the digit
\* depends on the rounding of the division itself)
two_decimals(num, den) ==
    LET q == (num * 100) \div den
        r == (num * 100) % den
        hundredths == IF 2 * r > den \/ (2 * r = den /\ q % 2 = 1) THEN q + 1 ELSE q
    IN NatStr(hundredths \div 100) \o <<".">> \o ZeroPad(NatStr(hundredths % 100), 2)

\* the three battery fields computed whenever the initial reading is there,
\* an absent remaining reading counting as 0
battery_fields_unguarded(text) ==
    LET match_initial == capacity_search(
            <<"C", "a", "p", "a", "c", "i", "t", "é", " ", "i", "n", "i", "t", "i", "a", "l", "e", " ", "d", "e", " ", "l", "a", " ", "b", "a", "t", "t", "e", "r", "i", "e", " ", "1", "2", "V">>, text)
        match_remaining == capacity_search(
            <<"C", "a", "p", "a", "c", "i", "t", "é", " ", "r", "e", "s", "t", "a", "n", "t", "e", " ", "d", "e", " ", "l", "a", " ", "b", "a", "t", "t", "e", "r", "i", "e", " ", "1", "2", "V">>, text)
        remaining_mAh == IF match_remaining.ok THEN NumVal(match_remaining.group) ELSE 0
    IN IF match_initial.ok
       THEN IF NumVal(match_initial.group) = 0
            THEN Raised("ZeroDivisionError", ZeroDivisionMessage)
            ELSE [raised |-> "no",
                  initial |-> two_decimals(NumVal(match_initial.group), 625) \o <<" ", "V">>,
                  remaining |-> two_decimals(remaining_mAh, 625) \o <<" ", "V">>,
                  percentage |-> two_decimals(remaining_mAh * 100,
                                              NumVal(match_initial.group)) \o <<" ", "%">>]
       ELSE [raised |-> "no", initial |-> <<>>, remaining |-> <<>>, percentage |-> <<>>]

\* the three battery fields (extraction.py:196-213); the division of line 205
\* raises ZeroDivisionError for an initial capacity of 0
battery_fields(text) ==
    LET match_initial == capacity_search(
            <<"C", "a", "p", "a", "c", "i", "t", "é", " ", "i", "n", "i", "t", "i", "a", "l", "e", " ", "d", "e", " ", "l", "a", " ", "b", "a", "t", "t", "e", "r", "i", "e", " ", "1", "2", "V">>, text)
        match_remaining == capacity_search(
            <<"C", "a", "p", "a", "c", "i", "t", "é", " ", "r", "e", "s", "t", "a", "n", "t", "e", " ", "d", "e", " ", "l", "a", " ", "b", "a", "t", "t", "e", "r", "i", "e", " ", "1", "2", "V">>, text)
    IN IF match_initial.ok /\ match_remaining.ok
       THEN IF NumVal(match_initial.group) = 0
            THEN Raised("ZeroDivisionError", ZeroDivisionMessage)
            ELSE [raised |-> "no",
                  initial |-> two_decimals(NumVal(match_initial.group), 625) \o <<" ", "V">>,
                  remaining |-> two_decimals(NumVal(match_remaining.group), 625) \o <<" ", "V">>,
                  percentage |-> two_decimals(NumVal(match_remaining.group) * 100,
                                              NumVal(match_initial.group)) \o <<" ", "%">>]
       ELSE [raised |-> "no", initial |-> <<>>, remaining |-> <<>>, percentage |-> <<>>]

\* results["errors"] (extraction.py:216-217)
g3_errors(text) ==
    LET errors == findall("g3_errors", text)
    IN [i \in 1..Len(errors) |-> <<errors[i][2] \o <<" ">> \o errors[i][3], errors[i][1]>>]

\* results["Date installation"] taken from the first match instead of the last
date_installation_first(text) ==
    LET dates_found == findall("date_pattern", text)
    IN IF dates_found # <<>>
       THEN dates_found[1][1] \o <<" ">> \o dates_found[1][2]
       ELSE <<>>

\* results["Date installation"] (extraction.py:221-229)
date_installation(text) ==
    LET dates_found == findall("date_pattern", text)
    IN IF dates_found # <<>>
       THEN dates_found[Len(dates_found)][1] \o <<" ">> \o dates_found[Len(dates_found)][2]
       ELSE <<>>

g3_result_keys ==
    {g3_keyword_keys[k] : k \in 1..Len(g3_keywords)}
    \cup {"Capacité initiale de la batterie", "Capacité restante de la batterie",
          "Pourcentage de la batterie", "errors", "Date installation"}

\* the body of the try (extraction.py:171-231): the results, or the exception
\* it raises
g3_try(text) ==
    IF text = None THEN Raised("TypeError", TypeErrorMessage)
    ELSE CHOOSE r \in
        {IF battery.raised # "no" THEN battery
         ELSE [key \in g3_result_keys |->
                 CASE key = "Capacité initiale de la batterie" -> battery.initial
                   [] key = "Capacité restante de la batterie" -> battery.remaining
                   [] key = "Pourcentage de la batterie" -> battery.percentage
                   [] key = "errors" -> g3_errors(text)
                   [] key = "Date installation" -> date_installation(text)
                   [] OTHER -> g3_keyword_value(key,
                                   g3_keywords[CHOOSE k \in 1..Len(g3_keywords) :
                                                  g3_keyword_keys[k] = key], text)]
         : battery \in {battery_fields(text)}} : TRUE

\* extract_aed_g3_data(text) without the except clause: what the body
\* returns or raises
extract_aed_g3_data_propagating(text) == g3_try(text)

\* extract_aed_g3_data(text): the results, or {"erreur": str(e)} for any
\* exception of the body (extraction.py:233-235)
extract_aed_g3_data(text) ==
    CHOOSE r \in {IF "raised" \in DOMAIN body THEN [k \in {"erreur"} |-> body.message] ELSE body
                  : body \in {g3_try(text)}} : TRUE

---------------------------------------------------------------------------
(* extraction.py: extract_important_info_g5.  An OCR result is a triple     *)
(* <<box, text, confidence>>                                                *)

\* [\dOo] of serial_pattern
SerialDigitChars == Digits \cup {"O", "o"}

\* re.match of r"([A-Za-z]*\s*[\dOo]+)" at position p (extraction.py:276):
\* the letters are given back one at a time until [\dOo]+ can start.  After
\* all the letters and the whitespace a digit, an O or an o has to stand;
\* after fewer letters the next character is a letter, so an O or an o.
serial_pattern_at(text, p) ==
    LET letters_end == SpanEnd(text, p, Letters)
        q == SpanEnd(text, letters_end + 1, Whitespace) + 1
        given_back == {h \in p..letters_end : text[h] \in {"O", "o"}}
    IN IF q <= Len(text) /\ text[q] \in SerialDigitChars
       THEN [ok |-> TRUE, group |-> SubSeq(text, p, SpanEnd(text, q, SerialDigitChars))]
       ELSE IF given_back # {}
       THEN [ok |-> TRUE,
             group |-> SubSeq(text, p,
                              SpanEnd(text, CHOOSE h \in given_back : \A g \in given_back : g <= h,
                                      SerialDigitChars))]
       ELSE NoMatch

\* "SN" in text or "Serial Number" in text
is_sn_marker(text) ==
    \/ Contains(text, <<"S", "N">>)
    \/ Contains(text, <<"S", "e", "r", "i", "a", "l", " ", "N", "u", "m", "b", "e", "r">>)

\* .replace('O', '0').replace('o', '0')
replace_o(s) == [i \in 1..Len(s) |-> IF s[i] \in {"O", "o"} THEN "0" ELSE s[i]]

\* one turn of the loop (extraction.py:279-290) on the variables
\* serial_number, date_of_fabrication and sn_found
g5_loop_body(state, text) ==
    \* re.search(r"(\d{4}-\d{2}-\d{2})", text)
    LET g5_date_search ==
            LET at == {j \in 1..(Len(text) - 9) :
                          /\ \A i \in {0, 1, 2, 3, 5, 6, 8, 9} : text[j + i] \in Digits
                          /\ text[j + 4] = "-" /\ text[j + 7] = "-"}
            IN IF at = {} THEN NoMatch
               ELSE [ok |-> TRUE,
                     group |-> LET j == CHOOSE h \in at : \A g \in at : h <= g
                               IN SubSeq(text, j, j + 9)]
        \* re.search(serial_pattern, text)
        g5_serial_search ==
            LET at == {p \in 1..Len(text) : serial_pattern_at(text, p).ok}
            IN IF at = {} THEN NoMatch
               ELSE serial_pattern_at(text, CHOOSE p \in at : \A h \in at : p <= h)
    IN
    IF is_sn_marker(text) THEN [state EXCEPT !.sn_found = TRUE]
    ELSE LET serial_match == g5_serial_search
             date_search == g5_date_search
             taken == state.sn_found /\ serial_match.ok
         IN [serial_number |-> IF taken THEN replace_o(serial_match.group)
                               ELSE state.serial_number,
             sn_found |-> IF taken THEN FALSE ELSE state.sn_found,
             date_of_fabrication |-> IF date_search.ok THEN date_search.group
                                     ELSE state.date_of_fabrication]

RECURSIVE g5_loop(_, _)
g5_loop(results, state) ==
    IF results = <<>> THEN state
    ELSE CHOOSE final \in {g5_loop(Tail(results), next) :
                              next \in {g5_loop_body(state, Head(results)[2])}} : TRUE

\* extract_important_info_g5(results): (serial_number, date_of_fabrication)
extract_important_info_g5(results) ==
    CHOOSE pair \in {<<final.serial_number, final.date_of_fabrication>> :
                        final \in {g5_loop(results, [serial_number |-> None,
                                                     date_of_fabrication |-> None,
                                                     sn_found |-> FALSE])}} : TRUE

---------------------------------------------------------------------------
(* Bounds and sample inputs *)

Min(a, b) == IF a < b THEN a ELSE b

FirstN(samples, n) == {samples[i] : i \in 1..Min(n, Len(samples))}

\* values of one source of a field comparison: missing values, a month/year
\* date, full dates in and out of that month, serial numbers, a first of the
\* month, an ISO date, a date with a time of day
FieldSamples == <<
    None,
    <<"N", "/", "A">>,
    <<"1", "2", "/", "2", "0", "2", "3">>,
    <<"1", "5", "/", "1", "2", "/", "2", "0", "2", "3">>,
    <<"1", "5", "/", "1", "1", "/", "2", "0", "2", "3">>,
    <<"A", "B", "C", "1", "2", "3">>,
    <<>>,
    <<"0", "1", "/", "1", "2", "/", "2", "0", "2", "3">>,
    <<"1", "6", "/", "1", "2", "/", "2", "0", "2", "3">>,
    <<"a", "b", "c", "-", "1", "2", "3">>,
    <<"2", "0", "2", "3", "-", "1", "2", "-", "1", "5">>,
    <<"1", "5", "/", "1", "2", "/", "2", "0", "2", "3", " ", "1", "4", ":", "3", "0">> >>

NFieldVals == 9

FieldVals == FirstN(FieldSamples, NFieldVals)

\* RVD battery levels
LevelSamples == <<
    None, <<>>, <<"7", "0">>, <<"7", "0", ".", "0">>, <<"6", "9", ".", "4">>,
    <<"a", "b", "c">>, <<"N", "/", "A">>, <<"6", "8">>, <<"7", "4", ".", "5">>,
    <<"7", ".", "0", ".", "5">> >>

\* device-report battery texts
AedTextSamples == <<
    None, <<>>, <<"7", "2", "%">>, <<"7", "2", ".", "0", "1">>, <<"7", "1", ".", "5", "%">>,
    <<"N", "o", "n", " ", "t", "r", "o", "u", "v", "é">>, <<"N", "/", "A">>,
    <<"7", "3", ".", "5", " ", "%">>, <<"n", "i", "v", "e", "a", "u", " ", "7", "2">>,
    <<"8", "0", ".", "0", "0", " ", "%">> >>

NBatteryVals == 8

\* serial numbers of the RVD's original-serial fields
SerialSamples == <<
    <<"A", "B", "C", "1", "2", "3">>,
    <<"N", "o", "n", " ", "t", "r", "o", "u", "v", "é">>,
    <<>>,
    <<"X", "Y", "Z", "-", "9">>,
    <<"N", "/", "A">> >>

NSerials == 3

MaxImages == 2

\* An RVD document as extract_rvd_data returns it: every keyword is a key.
\* cb: 'Changement batterie'; so: the original serial fields; sn: the
\* new-part serial fields; d: the original date fields.
RvdDoc(cb, so, sn, d) ==
    [k \in rvd_keywords |->
        CASE k = "Changement batterie" -> cb
          [] k = "Changement électrodes adultes" -> Non
          [] k \in {"Numéro de série DEFIBRILLATEUR", "Numéro de série Batterie",
                    "Numéro de série ELECTRODES ADULTES",
                    "Numéro de série ELECTRODES PEDIATRIQUES"} -> so
          [] k \in {"N° série nouvelle batterie", "N° série nouvelles électrodes"} -> sn
          [] k \in {"Date fabrication DEFIBRILLATEUR", "Date fabrication BATTERIE",
                    "Date mise en service BATTERIE",
                    "Date de péremption ELECTRODES ADULTES",
                    "Date de péremption ELECTRODES PEDIATRIQUES",
                    "Date-Heure rapport vérification défibrillateur"} -> d
          [] k = "Niveau de charge de la batterie en %" -> <<"7", "0">>
          [] k \in {"Date fabrication nouvelle batterie",
                    "Date de mise en service de la nouvelle batterie",
                    "Date péremption des nouvelles éléctrodes"} -> <<"0", "1", "/", "0", "2", "/", "2", "0", "2", "4">>
          [] k = "Niveau de charge nouvelle batterie" -> <<"9", "5">>
          [] OTHER -> <<>>]

\* a dict passed to compare_section that also holds the pediatric flag
WithPediatricFlag(rvd, cp) ==
    IF cp = None THEN rvd ELSE ("Changement électrodes pédiatriques" :> cp) @@ rvd

DateSamples == {<<"1", "5", "/", "1", "2", "/", "2", "0", "2", "3">>, <<>>}

NewSerialSamples == {<<"a", "b", "c", "-", "1", "2", "3">>, <<>>}

\* a G5 report as extract_aed_g5_data returns it
G5Doc ==
    [ k \in {"N° série DAE", "Capacité restante de la batterie", "Date d'installation :",
             "Rapport DAE - Erreurs en cours", "Date / Heure:", "errors"} |->
        CASE k = "N° série DAE" -> <<"A", "B", "C", "1", "2", "3">>
          [] k = "Capacité restante de la batterie" -> <<"7", "2", "%">>
          [] k = "Date d'installation :" -> <<"1", "5", "/", "1", "2", "/", "2", "0", "2", "3">>
          [] k = "Date / Heure:" ->
               <<"1", "5", "/", "1", "2", "/", "2", "0", "2", "3", " ", "1", "4", ":", "3", "0">>
          [] OTHER -> <<>> ]

\* a G3 report as extract_aed_g3_data returns it
G3Doc ==
    [ k \in {"Série DSA", "Dernier échec de DSA", "Numéro de lot", "Date de mise en service",
             "Autotest", "Capacité initiale de la batterie", "Capacité restante de la batterie",
             "Pourcentage de la batterie", "errors", "Date installation"} |->
        CASE k = "Série DSA" -> <<"A", "B", "C", "1", "2", "3">>
          [] k = "Date de mise en service" -> <<"1", "5", "/", "1", "2", "/", "2", "0", "2", "3">>
          [] k = "Capacité initiale de la batterie" -> <<"1", ".", "6", "0", " ", "V">>
          [] k = "Capacité restante de la batterie" -> <<"1", ".", "2", "8", " ", "V">>
          [] k = "Pourcentage de la batterie" -> <<"8", "0", ".", "0", "0", " ", "%">>
          [] OTHER -> <<>> ]

\* image records as process_classified_image appends them
ImageRecord(type, serial, date) ==
    [type |-> type, serial |-> serial, date |-> date, image |-> None]

ImageRecords == {
    ImageRecord("Electrodes", <<"a", "b", "c", "-", "1", "2", "3">>,
                <<"2", "0", "2", "3", "-", "1", "2", "-", "1", "5">>),
    ImageRecord("Batterie", <<"X", "Y", "Z", "-", "9">>, None),
    ImageRecord("Defibrillateur G5", <<"A", "B", "C", "1", "2", "3">>,
                <<"2", "0", "2", "3", "-", "1", "2", "-", "1", "5">>),
    ImageRecord("Defibrillateur G3", <<"4", "5", "1", "2", "3", "4", "5">>, <<"2", "0", "2", "1", "-", "0", "3", "-", "0", "4">>) }

ImageLists == UNION {[1..n -> ImageRecords] : n \in 0..MaxImages}

---------------------------------------------------------------------------
(* The session: ui.py setup_session_state, the device selection, the uploads *)
(* of processing.py and compare_data                                         *)

\* st.session_state.processed_data after setup_session_state (ui.py:609-621)
initial_processed_data ==
    [ k \in {"RVD", "AEDG5", "AEDG3", "images", "files", "comparisons"} |->
        CASE k \in {"RVD", "AEDG5", "AEDG3"} -> EmptyDict
          [] k \in {"images", "files"} -> <<>>
          [] OTHER -> empty_results ]

\* the RVD documents uploaded in the session
SessionRvdDocs ==
    {RvdDoc(cb, so, <<"a", "b", "c", "-", "1", "2", "3">>,
            <<"1", "5", "/", "1", "2", "/", "2", "0", "2", "3">>) :
        cb \in {Oui, Non}, so \in {SerialSamples[1]}}

HarnessIdle == pc = "session" /\ args = EmptyDict /\ out = EmptyDict

Init ==
    /\ dae_type = "G5"
    /\ processed_data = initial_processed_data
    /\ st_messages = <<>>
    /\ returned = EmptyDict
    /\ last_call = "setup_session_state"
    /\ HarnessIdle

\* the G5 / G3 buttons (ui.py:730-739)
SelectDaeType ==
    /\ \E t \in {"G5", "G3"} : dae_type' = t
    /\ last_call' = "select"
    /\ st_messages' = <<>>
    /\ UNCHANGED <<processed_data, returned, pc, args, out>>

\* process_pdf_file on an RVD (processing.py:117-122)
ProcessPdfRvd ==
    /\ \E doc \in SessionRvdDocs : processed_data' = ("RVD" :> doc) @@ processed_data
    /\ last_call' = "process_pdf_file"
    /\ st_messages' = <<>>
    /\ UNCHANGED <<dae_type, returned, pc, args, out>>

\* A variant of ProcessPdfAed that parses every report as a G5 report: a
\* report uploaded with G3 selected is stored under 'AEDG3' with G5 keys.
ProcessPdfAedOneParser ==
    /\ processed_data' = IF dae_type = "G5"
                         THEN ("AEDG5" :> G5Doc) @@ processed_data
                         ELSE ("AEDG3" :> G5Doc) @@ processed_data
    /\ last_call' = "process_pdf_file"
    /\ st_messages' = <<>>
    /\ UNCHANGED <<dae_type, returned, pc, args, out>>

\* process_pdf_file on a device report (processing.py:128-139)
ProcessPdfAed ==
    /\ processed_data' = IF dae_type = "G5"
                         THEN ("AEDG5" :> G5Doc) @@ processed_data
                         ELSE ("AEDG3" :> G3Doc) @@ processed_data
    /\ last_call' = "process_pdf_file"
    /\ st_messages' = <<>>
    /\ UNCHANGED <<dae_type, returned, pc, args, out>>

\* process_classified_image appends the image's record (processing.py:257)
ProcessImage ==
    /\ Len(processed_data["images"]) < MaxImages
    /\ \E img \in ImageRecords :
          processed_data' = ("images" :> Append(processed_data["images"], img))
                            @@ processed_data
    /\ last_call' = "process_image_file"
    /\ st_messages' = <<>>
    /\ UNCHANGED <<dae_type, returned, pc, args, out>>

\* compare_data() (comparison.py:272-298)
CompareData ==
    /\ \E results \in {compare_data_results} :
          /\ returned' = results
          /\ processed_data' = compare_data_store(results)
    /\ st_messages' = IF rvd_missing
                      THEN <<"Données RVD manquantes pour la comparaison">>
                      ELSE <<>>
    /\ last_call' = "compare_data"
    /\ UNCHANGED <<dae_type, pc, args, out>>

Next == SelectDaeType \/ ProcessPdfRvd \/ ProcessPdfAed \/ ProcessImage \/ CompareData

Spec == Init /\ [][Next]_vars

---------------------------------------------------------------------------
(* Function-level specifications: the inputs are drawn by the initial state *)
(* and one call is made                                                     *)

SessionIdle ==
    /\ processed_data = initial_processed_data
    /\ st_messages = <<>>
    /\ returned = EmptyDict
    /\ last_call = "setup_session_state"

Sources == {"rvd_original", "rvd_releve", "aed", "image"}

InitField ==
    /\ dae_type = "G5"
    /\ SessionIdle
    /\ pc = "ready"
    /\ args \in [Sources -> FieldVals]
    /\ out = EmptyDict

CallCompareRvdReleve ==
    /\ pc = "ready"
    /\ pc' = "compare_rvd_releve"
    /\ out' = compare_rvd_releve(args["rvd_original"], args["rvd_releve"], args["aed"],
                                 args["image"], "normalize_serial")
    /\ UNCHANGED <<dae_type, processed_data, st_messages, returned, last_call, args>>

CallCompareDates ==
    /\ pc = "ready"
    /\ pc' = "compare_dates_with_releve"
    /\ out' = compare_dates_with_releve(args["rvd_original"], args["rvd_releve"],
                                        args["aed"], args["image"])
    /\ UNCHANGED <<dae_type, processed_data, st_messages, returned, last_call, args>>

NextField == CallCompareRvdReleve \/ CallCompareDates

SpecField == InitField /\ [][NextField]_vars

\* a dict with the key only when the value is not None
DictOf(key, value) == IF value = None THEN EmptyDict ELSE (key :> value)

InitBattery ==
    /\ dae_type \in {"G5", "G3"}
    /\ SessionIdle
    /\ pc = "ready"
    /\ \E level \in FirstN(LevelSamples, NBatteryVals),
          text \in FirstN(AedTextSamples, NBatteryVals),
          key \in {"Capacité restante de la batterie",
                   "Capacité restante de la batterie 12V"} :
          args = [rvd |-> DictOf("Niveau de charge de la batterie en %", level),
                  aed |-> DictOf(key, text)]
    /\ out = EmptyDict

CallCompareBatteryLevel ==
    /\ pc = "ready"
    /\ pc' = "compare_battery_level"
    /\ out' = compare_battery_level(args.rvd, args.aed)
    /\ UNCHANGED <<dae_type, processed_data, st_messages, returned, last_call, args>>

NextBattery == CallCompareBatteryLevel

SpecBattery == InitBattery /\ [][NextBattery]_vars

InitSection ==
    /\ dae_type \in {"G5", "G3"}
    /\ SessionIdle
    /\ pc = "ready"
    /\ \E cb \in {Oui, Non, <<>>}, cp \in {None, Oui, Non}, ca \in {Oui, Non},
          so \in FirstN(SerialSamples, NSerials), sn \in NewSerialSamples,
          d \in DateSamples, images \in ImageLists :
          args = [rvd |-> ("Changement électrodes adultes" :> ca)
                          @@ WithPediatricFlag(RvdDoc(cb, so, sn, d), cp),
                  aed |-> IF dae_type = "G5" THEN G5Doc ELSE G3Doc,
                  images |-> images]
    /\ out = EmptyDict

CallCompareSection ==
    /\ pc = "ready"
    /\ \E i \in 1..Len(sections) :
          /\ pc' = sections[i]
          /\ out' = compare_section(sections[i], args.rvd, args.aed, args.images)
    /\ UNCHANGED <<dae_type, processed_data, st_messages, returned, last_call, args>>

NextSection == CallCompareSection

SpecSection == InitSection /\ [][NextSection]_vars

---------------------------------------------------------------------------
(* Properties of the field comparisons (SpecField) *)

\* C1: in every field comparison of compare_values and
\* compare_dates_with_releve, a key match_<A>_<B> is present only if both
\* source A and source B had a present value (not None, not empty, not
\* 'N/A') and, for a date field, a value parse_date parsed.
C1_MatchKeyOnlyForPresentSources ==
    pc \in {"compare_rvd_releve", "compare_dates_with_releve"} =>
        \A a, b \in Sources :
            MatchKey(a, b) \in DOMAIN out =>
                \A s \in {a, b} :
                    /\ args[s] \notin {None, <<>>, NA}
                    /\ pc = "compare_dates_with_releve" => parse_date(args[s]).ok

\* a date comparison of an 'N/A' value, an unparsable value and two dates:
\* only the two dates are paired
C1_Witness ==
    /\ pc = "compare_dates_with_releve"
    /\ args["rvd_original"] = NA
    /\ args["rvd_releve"] # <<>> /\ args["rvd_releve"] # None
    /\ ~parse_date(args["rvd_releve"]).ok
    /\ parse_date(args["aed"]).ok /\ parse_date(args["image"]).ok
    /\ MatchKey("aed", "image") \in DOMAIN out
    /\ MatchKey("rvd_releve", "aed") \notin DOMAIN out

\* C2: for every unordered pair of the four sources that both have a present
\* value (for a date field, a parseable one), the field comparison holds
\* exactly one match key for the pair, and its value is a boolean.
C2_OneBooleanKeyPerComparablePair ==
    pc \in {"compare_rvd_releve", "compare_dates_with_releve"} =>
        LET comparable(s) ==
                /\ args[s] \notin {None, <<>>, NA}
                /\ pc = "compare_dates_with_releve" => parse_date(args[s]).ok
        IN \A a, b \in Sources :
              (a # b /\ comparable(a) /\ comparable(b)) =>
                  LET ks == {MatchKey(a, b), MatchKey(b, a)} \cap DOMAIN out
                  IN Cardinality(ks) = 1 /\ \A k \in ks : out[k] \in BOOLEAN

\* a date comparison of four parseable dates: six match keys
C2_Witness ==
    /\ pc = "compare_dates_with_releve"
    /\ \A s \in Sources : args[s] \notin {None, <<>>, NA} /\ parse_date(args[s]).ok
    /\ Cardinality({k \in DOMAIN out : \E a, b \in Sources : k = MatchKey(a, b)}) = 6
    /\ \E a, b \in Sources : MatchKey(a, b) \in DOMAIN out /\ ~out[MatchKey(a, b)]

\* C3: in compare_dates_with_releve a source holding the month/year-only date
\* '12/2023', compared with a source holding a full date, yields a match key
\* that is true for a date of December 2023 and false for a date of another
\* month.
C3_MonthYearComparedWithFullDate ==
    pc = "compare_dates_with_releve" =>
        LET month_year == <<"1", "2", "/", "2", "0", "2", "3">>
            same_month == <<"1", "5", "/", "1", "2", "/", "2", "0", "2", "3">>
            other_month == <<"1", "5", "/", "1", "1", "/", "2", "0", "2", "3">>
        IN \A a, b \in Sources :
              (args[a] = month_year /\ args[b] \in {same_month, other_month}) =>
                  \E k \in {MatchKey(a, b), MatchKey(b, a)} \cap DOMAIN out :
                      out[k] = (args[b] = same_month)

---------------------------------------------------------------------------
(* Properties of compare_battery_level (SpecBattery) *)

\* C4: compare_battery_level sets match to true if and only if the RVD value
\* and the full numeric percentage of the device report, decimals included,
\* differ by at most 2 percentage points.
C4_MatchIffFullValuesWithinTolerance ==
    pc = "compare_battery_level" =>
        LET rvd_text == Get(args.rvd, "Niveau de charge de la batterie en %")
            aed_text == Get(args.aed, battery_aed_key)
        IN (/\ Truthy(rvd_text) /\ rvd_text # NA /\ float(rvd_text).ok
            /\ Truthy(aed_text) /\ aed_text # NA /\ full_percentage(aed_text).ok) =>
               (out["match"] <=>
                    within_tolerance(float(rvd_text).value, full_percentage(aed_text).value))

\* C5: whenever the RVD battery level or the device-report battery level is
\* missing or unparsable, the result of compare_battery_level carries an
\* 'error' message and match is false; and a false match without both values
\* always has an error.
C5_MissingBatteryInputGivesError ==
    pc = "compare_battery_level" =>
        LET rvd_text == Get(args.rvd, "Niveau de charge de la batterie en %")
            aed_text == Get(args.aed, battery_aed_key)
            rvd_bad == ~Truthy(rvd_text) \/ rvd_text = NA \/ ~float(rvd_text).ok
            aed_bad == ~Truthy(aed_text) \/ aed_text = NA
                       \/ ~BATTERY_LEVEL_PATTERN_search(aed_text).ok
        IN /\ (rvd_bad \/ aed_bad) => ("error" \in DOMAIN out /\ ~out["match"])
           /\ (~out["match"] /\ ~({"rvd", "aed"} \subseteq DOMAIN out)) => "error" \in DOMAIN out
           /\ out["match"] => ({"rvd", "aed"} \subseteq DOMAIN out /\ "error" \notin DOMAIN out)

\* an RVD level float() rejects against a readable device level
C5_Witness ==
    /\ pc = "compare_battery_level"
    /\ Get(args.rvd, "Niveau de charge de la batterie en %") = <<"a", "b", "c">>
    /\ Get(args.aed, battery_aed_key) = <<"7", "2", "%">>
    /\ "error" \in DOMAIN out
    /\ ~out["match"]

---------------------------------------------------------------------------
(* Properties of compare_section (SpecSection) *)

C7_PediatricComparisonFollowsFlag ==
    pc = "electrodes" =>
        LET flag == Get(args.rvd, "Changement électrodes pédiatriques")
        IN /\ flag # Oui => out["pediatriques"] = EmptyDict
           /\ flag = Oui =>
                 {"Numéro_de_série", "date_de_péremption"} \subseteq DOMAIN out["pediatriques"]

\* the electrodes section of an RVD whose pediatric flag is 'Oui'
C7_Witness ==
    /\ pc = "electrodes"
    /\ Get(args.rvd, "Changement électrodes pédiatriques") = Oui
    /\ DOMAIN out["pediatriques"] = {"Numéro_de_série", "date_de_péremption"}
    /\ "rvd_original" \in DOMAIN out["pediatriques"]["Numéro_de_série"]

---------------------------------------------------------------------------
(* Properties of compare_data (Spec) *)

\* C9: when no RVD document has been processed, compare_data signals the
\* error 'Données RVD manquantes pour la comparaison' and returns an empty
\* result for each of the three sections, and no comparison is stored.
C9_MissingRvdShortCircuits ==
    (last_call = "compare_data" /\ rvd_missing) =>
        /\ DOMAIN returned = {"defibrillateur", "batterie", "electrodes"}
        /\ \A s \in DOMAIN returned : returned[s] = EmptyDict
        /\ st_messages = <<"Données RVD manquantes pour la comparaison">>
        /\ processed_data["comparisons"] = empty_results

\* compare_data after a device report and an image were processed, no RVD
C9_Witness ==
    /\ last_call = "compare_data"
    /\ rvd_missing
    /\ processed_data["AEDG5"] # EmptyDict
    /\ Len(processed_data["images"]) > 0
    /\ returned = empty_results

---------------------------------------------------------------------------
(* parse_date on its own (SpecParse): the input is a date written in one of *)
(* the formats the module lists, or a string in none of them                *)

TwoDigits(n) == ZeroPad(NatStr(n), 2)

\* The formats of DATE_FORMATS (comparison.py:16-28) and of parse_date's own
\* list (39-43), by the shape of the strings they describe.
SupportedFormats == {"DD/MM/YYYY", "DD-MM-YYYY", "YYYY-MM-DD", "YYYY/MM/DD", "MM/DD/YYYY",
                     "YYYYMMDD", "DD Mon YYYY", "DD Month YYYY", "MM/YYYY", "MM-YYYY"}

MonthYearFormats == {"MM/YYYY", "MM-YYYY"}

InitParse ==
    \* strings in none of the formats, or denoting no calendar date
    LET UnsupportedDateSamples == {
            <<>>,
            <<"a", "b", "c">>,
            <<"N", "/", "A">>,
            <<"1", "5", "/", "1", "3", "/", "2", "0", "2", "3">>,
            <<"3", "1", "/", "0", "2", "/", "2", "0", "2", "3">>,
            <<"2", "0", "2", "3">>,
            <<"1", "5", "/", "1", "2", "/", "2", "3">>,
            <<" ", "1", "5", "/", "1", "2", "/", "2", "0", "2", "3", " ">>,
            <<"1", "5", ".", "1", "2", ".", "2", "0", "2", "3">>,
            <<"1", "/", "2", "/", "2", "0", "2", "3">>,
            <<"2", "0", "2", "3", "1", "1">>,
            <<"1", "5", "/", "1", "2", "/", "2", "0", "2", "3", " ", "9", "9", ":", "9", "9">>,
            <<"2", "9", "/", "0", "2", "/", "2", "0", "2", "3">> }
        DaySamples == {1, 9, 15, 29, 31}
        MonthSamples == {1, 2, 11, 12}
        YearSamples == {2023, 2024}
        \* with or without a time of day
        TimeSamples == {<<>>, <<" ", "1", "4", ":", "3", "0">>,
                        <<" ", "1", "4", ":", "3", "0", ":", "0", "5">>}
        \* the string that denotes the date y-m-d in a format
        Render(format, y, m, d) ==
            \* %B of the C locale; %b is the first three letters
            LET MonthNames == <<
                    <<"J", "a", "n", "u", "a", "r", "y">>,
                    <<"F", "e", "b", "r", "u", "a", "r", "y">>,
                    <<"M", "a", "r", "c", "h">>,
                    <<"A", "p", "r", "i", "l">>,
                    <<"M", "a", "y">>,
                    <<"J", "u", "n", "e">>,
                    <<"J", "u", "l", "y">>,
                    <<"A", "u", "g", "u", "s", "t">>,
                    <<"S", "e", "p", "t", "e", "m", "b", "e", "r">>,
                    <<"O", "c", "t", "o", "b", "e", "r">>,
                    <<"N", "o", "v", "e", "m", "b", "e", "r">>,
                    <<"D", "e", "c", "e", "m", "b", "e", "r">> >>
            IN
            LET dd == TwoDigits(d)
                mm == TwoDigits(m)
                yyyy == ZeroPad(NatStr(y), 4)
            IN CASE format = "DD/MM/YYYY" -> dd \o <<"/">> \o mm \o <<"/">> \o yyyy
                 [] format = "DD-MM-YYYY" -> dd \o <<"-">> \o mm \o <<"-">> \o yyyy
                 [] format = "YYYY-MM-DD" -> yyyy \o <<"-">> \o mm \o <<"-">> \o dd
                 [] format = "YYYY/MM/DD" -> yyyy \o <<"/">> \o mm \o <<"/">> \o dd
                 [] format = "MM/DD/YYYY" -> mm \o <<"/">> \o dd \o <<"/">> \o yyyy
                 [] format = "YYYYMMDD" -> yyyy \o mm \o dd
                 [] format = "DD Mon YYYY" -> dd \o <<" ">> \o SubSeq(MonthNames[m], 1, 3) \o <<" ">> \o yyyy
                 [] format = "DD Month YYYY" -> dd \o <<" ">> \o MonthNames[m] \o <<" ">> \o yyyy
                 [] format = "MM/YYYY" -> mm \o <<"/">> \o yyyy
                 [] format = "MM-YYYY" -> mm \o <<"-">> \o yyyy
    IN
    /\ dae_type = "G5"
    /\ SessionIdle
    /\ pc = "ready"
    /\ \/ \E format \in SupportedFormats, y \in YearSamples, m \in MonthSamples,
             d \in DaySamples, time \in TimeSamples :
             /\ d <= DaysInMonth(y, m)
             /\ args = [date_str |-> Render(format, y, m, d) \o time, format |-> format,
                        year |-> y, month |-> m, day |-> d]
       \/ \E s \in UnsupportedDateSamples :
             args = [date_str |-> s, format |-> "none", year |-> 0, month |-> 0, day |-> 0]
    /\ out = EmptyDict

CallParseDate ==
    /\ pc = "ready"
    /\ pc' = "parse_date"
    /\ out' = parse_date(args.date_str)
    /\ UNCHANGED <<dae_type, processed_data, st_messages, returned, last_call, args>>

NextParse == CallParseDate

SpecParse == InitParse /\ [][NextParse]_vars

\* C11: for every input string parse_date returns exactly one of a date and
\* an error: when no format matches, no date and an error that is not empty
\* and echoes the cleaned input (the characters of the input that are digits,
\* ':', '/', '-' or spaces, trimmed, with '/' written '-'); when a format
\* matches, a calendar date and no error.
C11_ParseDateReturnsDateOrError ==
    pc = "parse_date" =>
        IF out.ok
        THEN /\ out.error = None
             /\ out.date.month \in 1..12
             /\ out.date.day \in 1..DaysInMonth(out.date.year, out.date.month)
        ELSE /\ out.date = None
             /\ out.error.msg # ""
             /\ out.error.arg =
                   ReplaceChar(Strip(SelectSeq(args.date_str, LAMBDA c : c \in DateChars)),
                               "/", "-")

\* a month-first string with a time of day, which no format matches as
\* cleaned: the error carries the whole cleaned string, time included
C11_Witness ==
    /\ pc = "parse_date"
    /\ args.date_str = <<"1", "2", "/", "3", "1", "/", "2", "0", "2", "3", " ", "1", "4", ":", "3", "0">>
    /\ ~out.ok
    /\ out.date = None
    /\ out.error.arg = <<"1", "2", "-", "3", "1", "-", "2", "0", "2", "3", " ", "1", "4", ":", "3", "0">>

\* C12: for every string written in one of the supported formats (day-first,
\* ISO, US, compact numeric, month-name and month/year forms, with or without
\* a time of day) parse_date returns the date the string denotes and no
\* error.  (A US string whose day is at most 12 is also a day-first string and
\* is left out.)
C12_SupportedFormatsParse ==
    (pc = "parse_date" /\ args.format \in SupportedFormats
     /\ ~(args.format = "MM/DD/YYYY" /\ args.day <= 12)) =>
        /\ out.ok
        /\ out.date.year = args.year
        /\ out.date.month = args.month
        /\ args.format \notin MonthYearFormats => out.date.day = args.day

---------------------------------------------------------------------------
(* extract_rvd_data on its own (SpecRvd): the text is up to three lines     *)
(* drawn from sample lines                                                  *)

NRvdLines == 7

RvdLines ==
    \* lines of an RVD: keyword lines with and without a value after the
    \* keyword, value lines, a blank line
    LET RvdLineSamples == <<
            <<"N", "u", "m", "é", "r", "o", " ", "d", "e", " ", "s", "é", "r", "i", "e", " ", "D", "E", "F", "I", "B", "R", "I", "L", "L", "A", "T", "E", "U", "R">>,
            <<"D", "a", "t", "e", " ", "f", "a", "b", "r", "i", "c", "a", "t", "i", "o", "n", " ", "D", "E", "F", "I", "B", "R", "I", "L", "L", "A", "T", "E", "U", "R", ":">>,
            <<"1", "5", "/", "1", "2", "/", "2", "0", "2", "3">>,
            <<>>,
            <<"A", "B", "C", " ", "1", "2", "3", "/", "4", "5", "6">>,
            <<"D", "a", "t", "e", " ", "m", "i", "s", "e", " ", "e", "n", " ", "s", "e", "r", "v", "i", "c", "e", " ", "B", "A", "T", "T", "E", "R", "I", "E", ":", " ", "0", "1", "/", "0", "2", "/", "2", "0", "2", "4">>,
            <<"D", "a", "t", "e", " ", "m", "i", "s", "e", " ", "e", "n", " ", "s", "e", "r", "v", "i", "c", "e", ":", " ", "1", "5", "/", "1", "2", "/", "2", "0", "2", "3">>,
            <<"N", "u", "m", "é", "r", "o", " ", "d", "e", " ", "s", "é", "r", "i", "e", " ", "D", "E", "F", "I", "B", "R", "I", "L", "L", "A", "T", "E", "U", "R", ":", " ", "A", "B", "C", "-", "1", "2", "3", " ", "V", "é", "r", "i", "f", "i", "c", "a", "t", "i", "o", "n">>,
            <<"D", "a", "t", "e", " ", "f", "a", "b", "r", "i", "c", "a", "t", "i", "o", "n", " ", "D", "E", "F", "I", "B", "R", "I", "L", "L", "A", "T", "E", "U", "R", ":", " ", "l", "e", " ", "1", "5", "/", "1", "2", "/", "2", "0", "2", "3", " ", "1", "4", ":", "3", "0">>,
            <<"N", "i", "v", "e", "a", "u", " ", "d", "e", " ", "c", "h", "a", "r", "g", "e", " ", "d", "e", " ", "l", "a", " ", "b", "a", "t", "t", "e", "r", "i", "e", " ", "e", "n", " ", "%", ":", " ", "8", "5", " ", "%">> >>
    IN
            FirstN(RvdLineSamples, NRvdLines)

\* "\n".join(lines)
RECURSIVE JoinLines(_)
JoinLines(lines) ==
    IF lines = <<>> THEN <<>>
    ELSE IF Len(lines) = 1 THEN lines[1]
    ELSE lines[1] \o <<"\n">> \o JoinLines(Tail(lines))

InitRvd ==
    LET RvdTexts ==
            {<<>>} \cup {JoinLines(ls) : ls \in {<<a>> : a \in RvdLines}
                                              \cup {<<a, b>> : a \in RvdLines, b \in RvdLines}
                                              \cup {<<a, b, c>> : a \in RvdLines, b \in RvdLines,
                                                                  c \in RvdLines}}
    IN
    /\ dae_type = "G5"
    /\ SessionIdle
    /\ pc = "ready"
    /\ \E text \in RvdTexts : args = [text |-> text]
    /\ out = EmptyDict

CallExtractRvdData ==
    /\ pc = "ready"
    /\ pc' = "extract_rvd_data"
    /\ out' = extract_rvd_data(args.text)
    /\ UNCHANGED <<dae_type, processed_data, st_messages, returned, last_call, args>>

NextRvd == CallExtractRvdData

SpecRvd == InitRvd /\ [][NextRvd]_vars

\* C13: extract_rvd_data returns an entry for every registered keyword, and
\* the entry of a keyword that is absent from the text is a 'not found'
\* sentinel: a value other than the empty string, which is what a keyword
\* present with an empty value gives.
C13_AbsentKeywordGivesSentinel ==
    pc = "extract_rvd_data" =>
        /\ DOMAIN out = {keyword_keys[k] : k \in 1..Len(keywords)}
        /\ \A k \in 1..Len(keywords) :
              ~Contains(lower(args.text), lower(keywords[k])) => out[keyword_keys[k]] # <<>>

\* C14: for every registered field, when the keyword line has a non-empty
\* remainder the value is taken from that remainder, and when the remainder
\* is empty the value is taken from the next non-empty line that starts no
\* registered keyword.
C14_ValueFromRemainderOrNextLine ==
    pc = "extract_rvd_data" =>
        LET lines == splitlines(args.text)
            starts(i, k) == MatchesAt(lower(strip(lines[i])), 1, lower(keywords[k]))
            remainder(i, k) ==
                LET line == strip(lines[i])
                IN strip(SubSeq(line, SpanEnd(line, Len(keywords[k]) + 1, SeparatorChars) + 1,
                                Len(line)))
            candidate(j) == strip(lines[j]) # <<>> /\ \A k \in 1..Len(keywords) : ~starts(j, k)
            taken_from(k, source) ==
                out[keyword_keys[k]] # <<>> /\ Contains(source, out[keyword_keys[k]])
        IN \A k \in 1..Len(keywords), i \in 1..Len(lines) :
              (starts(i, k) /\ \A h \in 1..(i - 1) : ~starts(h, k)) =>
                  IF remainder(i, k) # <<>>
                  THEN taken_from(k, remainder(i, k))
                  ELSE \A j \in (i + 1)..Len(lines) :
                          (candidate(j) /\ \A h \in (i + 1)..(j - 1) : ~candidate(h)) =>
                              taken_from(k, strip(lines[j]))

\* C15: every non-empty value that extract_rvd_data returns for a serial-like
\* field is one token of alphanumerics and hyphens, without whitespace.
C15_SerialValueIsOneToken ==
    pc = "extract_rvd_data" =>
        \A k \in 1..Len(keywords) :
            is_serial_keyword(keywords[k]) =>
                \A i \in 1..Len(out[keyword_keys[k]]) : out[keyword_keys[k]][i] \in SerialChars

---------------------------------------------------------------------------
(* extract_aed_g5_data and extract_aed_g3_data on their own (SpecAed): the  *)
(* text is up to three lines drawn from sample lines of the two reports, or *)
(* None                                                                     *)

AedLineSamples == <<
    <<"C", "o", "d", "e", " ", "d", "'", "e", "r", "r", "e", "u", "r", " ", "1", "2", " ", "0", "1", "/", "0", "2", "/", "2", "0", "2", "3", " ", "1", "0", ":", "1", "5", ":", "0", "0">>,
    <<"C", "o", "d", "e", " ", "d", "'", "e", "r", "r", "e", "u", "r", " ", "7", " ", "0", "2", "/", "0", "1", "/", "2", "0", "2", "3", " ", "0", "9", ":", "0", "0", ":", "0", "0">>,
    <<"0", "3", "/", "0", "4", "/", "2", "0", "2", "3", " ", "1", "1", ":", "3", "0", ":", "4", "5", " ", "0", "x", "1", "A", "2", "b">>,
    <<"0", "1", "/", "0", "1", "/", "2", "0", "2", "3", " ", "0", "8", ":", "0", "0", ":", "0", "0", " ", "0", "x", "0", "F">>,
    <<"A", "u", "c", "u", "n", "e", " ", "e", "r", "r", "e", "u", "r", " ", "t", "r", "o", "u", "v", "é", "e", "0", "5", "/", "0", "6", "/", "2", "0", "2", "3", " ", "1", "2", ":", "0", "0", ":", "0", "0">>,
    <<"A", "u", "c", "u", "n", "e", " ", "e", "r", "r", "e", "u", "r", " ", "t", "r", "o", "u", "v", "é", "e", " ", "0", "7", "/", "0", "8", "/", "2", "0", "2", "4", " ", "1", "3", ":", "4", "5", ":", "1", "0">>,
    <<"C", "a", "p", "a", "c", "i", "t", "é", " ", "i", "n", "i", "t", "i", "a", "l", "e", " ", "d", "e", " ", "l", "a", " ", "b", "a", "t", "t", "e", "r", "i", "e", " ", "1", "2", "V", " ", ":", " ", "1", "0", "0", "0", " ", "m", "A", "h">>,
    <<"C", "a", "p", "a", "c", "i", "t", "é", " ", "r", "e", "s", "t", "a", "n", "t", "e", " ", "d", "e", " ", "l", "a", " ", "b", "a", "t", "t", "e", "r", "i", "e", " ", "1", "2", "V", " ", ":", " ", "8", "0", "0", " ", "m", "A", "h">>,
    <<"C", "a", "p", "a", "c", "i", "t", "é", " ", "i", "n", "i", "t", "i", "a", "l", "e", " ", "d", "e", " ", "l", "a", " ", "b", "a", "t", "t", "e", "r", "i", "e", " ", "1", "2", "V", " ", ":", " ", "0", " ", "m", "A", "h">>,
    <<"S", "é", "r", "i", "e", " ", "D", "S", "A", " ", ":", " ", "0", "1", "2", "3", "4", "5">>,
    <<"A", "u", "c", "u", "n", "e", " ", "e", "r", "r", "e", "u", "r", " ", "t", "r", "o", "u", "v", "é", "e">>,
    <<"C", "a", "p", "a", "c", "i", "t", "é", " ", "r", "e", "s", "t", "a", "n", "t", "e", " ", "d", "e", " ", "l", "a", " ", "b", "a", "t", "t", "e", "r", "i", "e", " ", "1", "2", "V", " ", ":", " ", "3", "3", "3", " ", "m", "A", "h">>,
    <<"N", "°", " ", "s", "é", "r", "i", "e", " ", "D", "A", "E", ":", " ", "G", "5", "-", "0", "0", "1">> >>

NAedLines == 11

AedLines == FirstN(AedLineSamples, NAedLines)

InitAed ==
    LET AedTexts ==
            {<<>>} \cup {JoinLines(ls) : ls \in {<<a>> : a \in AedLines}
                                              \cup {<<a, b>> : a \in AedLines, b \in AedLines}
                                              \cup {<<a, b, c>> : a \in AedLines, b \in AedLines,
                                                                  c \in AedLines}}
    IN
    /\ dae_type \in {"G5", "G3"}
    /\ SessionIdle
    /\ pc = "ready"
    /\ \E text \in AedTexts \cup {None} : args = [text |-> text]
    /\ out = EmptyDict

CallExtractAedG5Data ==
    /\ pc = "ready"
    /\ dae_type = "G5"
    /\ pc' = "extract_aed_g5_data"
    /\ out' = extract_aed_g5_data(args.text)
    /\ UNCHANGED <<dae_type, processed_data, st_messages, returned, last_call, args>>

CallExtractAedG3Data ==
    /\ pc = "ready"
    /\ dae_type = "G3"
    /\ pc' = "extract_aed_g3_data"
    /\ out' = extract_aed_g3_data(args.text)
    /\ UNCHANGED <<dae_type, processed_data, st_messages, returned, last_call, args>>

NextAed == CallExtractAedG5Data \/ CallExtractAedG3Data

SpecAed == InitAed /\ [][NextAed]_vars

\* C16: the 'errors' sequence that extract_aed_g5_data and extract_aed_g3_data
\* return holds one item for each timestamp+code entry of the text, the i-th
\* item being the entry at the i-th place of the text where an entry stands.
C16_ErrorsInTextOrder ==
    LET Nth(positions, k) ==
            CHOOSE j \in positions : Cardinality({h \in positions : h < j}) = k - 1
    IN
    /\ (pc = "extract_aed_g5_data" /\ "errors" \in DOMAIN out) =>
          LET places == {j \in 1..Len(args.text) : g5_error_at(args.text, j).ok}
          IN /\ Len(out["errors"]) = Cardinality(places)
             /\ \A i \in 1..Len(out["errors"]) :
                   out["errors"][i] = g5_error_at(args.text, Nth(places, i)).groups
    /\ (pc = "extract_aed_g3_data" /\ "errors" \in DOMAIN out) =>
          LET places == {j \in 1..Len(args.text) : g3_error_at(args.text, j).ok}
          IN /\ Len(out["errors"]) = Cardinality(places)
             /\ \A i \in 1..Len(out["errors"]) :
                   LET entry == g3_error_at(args.text, Nth(places, i)).groups
                   IN out["errors"][i] = <<entry[2] \o <<" ">> \o entry[3], entry[1]>>

\* three entries, the same one first and last, not in the order of their dates
C16_Witness ==
    /\ pc = "extract_aed_g3_data"
    /\ "errors" \in DOMAIN out
    /\ Len(out["errors"]) = 3
    /\ out["errors"][1] = out["errors"][3]
    /\ out["errors"][1] # out["errors"][2]
    /\ out["errors"][1][1] = <<"0", "1", "/", "0", "2", "/", "2", "0", "2", "3", " ",
                               "1", "0", ":", "1", "5", ":", "0", "0">>

\* C17: when the text holds both capacity readings, the percentage that
\* extract_aed_g3_data returns is remaining / initial * 100 written with two
\* decimals (the hundredth nearest to the quotient) and " %"; when a reading
\* is missing the normal results are returned, whatever the other reading,
\* with an empty percentage and with the keyword fields, the errors and the
\* installation date that the text gives.
C17_PercentageFromBothReadings ==
    pc = "extract_aed_g3_data" /\ args.text # None =>
        LET initial == capacity_search(
                <<"C", "a", "p", "a", "c", "i", "t", "é", " ", "i", "n", "i", "t", "i", "a", "l", "e", " ", "d", "e", " ", "l", "a", " ", "b", "a", "t", "t", "e", "r", "i", "e", " ", "1", "2", "V">>, args.text)
            remaining == capacity_search(
                <<"C", "a", "p", "a", "c", "i", "t", "é", " ", "r", "e", "s", "t", "a", "n", "t", "e", " ", "d", "e", " ", "l", "a", " ", "b", "a", "t", "t", "e", "r", "i", "e", " ", "1", "2", "V">>, args.text)
            percentage == out["Pourcentage de la batterie"]
            hundredths == NumVal(SelectSeq(percentage, LAMBDA c : c \in Digits))
        IN IF initial.ok /\ remaining.ok
           THEN DOMAIN out = g3_result_keys =>
                   /\ Len(percentage) >= 6
                   /\ SubSeq(percentage, Len(percentage) - 1, Len(percentage)) = <<" ", "%">>
                   /\ percentage[Len(percentage) - 4] = "."
                   /\ \A i \in (1..(Len(percentage) - 2)) \ {Len(percentage) - 4} :
                         percentage[i] \in Digits
                   /\ 2 * Abs(hundredths * NumVal(initial.group)
                              - NumVal(remaining.group) * 10000) <= NumVal(initial.group)
           ELSE /\ DOMAIN out = g3_result_keys
                /\ percentage = <<>>
                /\ out["errors"] = g3_errors(args.text)
                /\ out["Date installation"] = date_installation(args.text)
                /\ \A k \in 1..Len(g3_keywords) :
                      out[g3_keyword_keys[k]]
                          = g3_keyword_value(g3_keyword_keys[k], g3_keywords[k], args.text)

\* initial 1000 mAh and remaining 800 mAh give 80.00 %, beside a serial number
C17_Witness ==
    /\ pc = "extract_aed_g3_data"
    /\ args.text # None
    /\ Contains(args.text, <<":", " ", "1", "0", "0", "0", " ", "m", "A", "h">>)
    /\ Contains(args.text, <<":", " ", "8", "0", "0", " ", "m", "A", "h">>)
    /\ DOMAIN out = g3_result_keys
    /\ out["Pourcentage de la batterie"] = <<"8", "0", ".", "0", "0", " ", "%">>
    /\ out["Série DSA"] = <<"1", "2", "3", "4", "5">>

\* C18: extract_aed_g3_data raises nothing: for every input, a text whose
\* initial capacity reading is 0 and an input that is not a text included, it
\* returns the normal field map or a map whose only key is 'erreur'.
C18_ReturnsFieldsOrErreur ==
    pc = "extract_aed_g3_data" =>
        \/ DOMAIN out = g3_result_keys
        \/ DOMAIN out = {"erreur"}

\* an initial reading of 0 beside a remaining reading: the division raises
\* and the map with 'erreur' is returned
C18_Witness ==
    /\ pc = "extract_aed_g3_data"
    /\ args.text # None
    /\ capacity_search(<<"C", "a", "p", "a", "c", "i", "t", "é", " ", "i", "n", "i", "t", "i", "a", "l", "e", " ", "d", "e", " ", "l", "a", " ", "b", "a", "t", "t", "e", "r", "i", "e", " ", "1", "2", "V">>, args.text).ok
    /\ NumVal(capacity_search(<<"C", "a", "p", "a", "c", "i", "t", "é", " ", "i", "n", "i", "t", "i", "a", "l", "e", " ", "d", "e", " ", "l", "a", " ", "b", "a", "t", "t", "e", "r", "i", "e", " ", "1", "2", "V">>,
                              args.text).group) = 0
    /\ DOMAIN out = {"erreur"}
    /\ out["erreur"] = ZeroDivisionMessage

\* C19: in the results of extract_aed_g3_data, 'Date installation' is the
\* date and time that follow the last place of the text where 'Aucune erreur
\* trouvée' stands with a timestamp, however many such places there are, and
\* is empty when there is none.
C19_InstallationDateIsLastOccurrence ==
    (pc = "extract_aed_g3_data" /\ DOMAIN out = g3_result_keys) =>
        LET places == {j \in 1..Len(args.text) : date_pattern_at(args.text, j).ok}
        IN IF places = {} THEN out["Date installation"] = <<>>
           ELSE LET last == date_pattern_at(args.text,
                                CHOOSE j \in places : \A h \in places : h <= j).groups
                IN out["Date installation"] = last[1] \o <<" ">> \o last[2]

\* two occurrences, the later date first in the text: the second one is kept
C19_Witness ==
    /\ pc = "extract_aed_g3_data"
    /\ args.text = JoinLines(<<AedLineSamples[6], AedLineSamples[5]>>)
    /\ DOMAIN out = g3_result_keys
    /\ out["Date installation"] = <<"0", "5", "/", "0", "6", "/", "2", "0", "2", "3", " ",
                                    "1", "2", ":", "0", "0", ":", "0", "0">>

---------------------------------------------------------------------------
(* extract_important_info_g5 on its own (SpecInfoG5): the OCR results are   *)
(* up to MaxOcrResults texts drawn from sample texts                        *)

NOcrTexts == 7

MaxOcrResults == 4

\* an OCR result: the box, the text, the confidence
OcrResult(text) == <<"box", text, "confidence">>

InitInfoG5 ==
    LET OcrTexts ==
            \* texts of a device label: the markers, serial numbers, words, a date
            LET OcrTextSamples == <<
                    <<"S", "N">>,
                    <<"D", "1", "2", "3", "4", "5">>,
                    <<"P", "o", "w", "e", "r", "h", "e", "a", "r", "t">>,
                    <<"S", "e", "r", "i", "a", "l", " ", "N", "u", "m", "b", "e", "r">>,
                    <<"D", "O", "1", "o", "2", "3">>,
                    <<"2", "0", "2", "3", "-", "0", "1", "-", "1", "5">>,
                    <<"x", "y", "z">>,
                    <<"S", "N", " ", "D", "7", "7", "7">>,
                    <<"A", "B", "-", "1", "2", "3", "4">> >>
            IN
                    FirstN(OcrTextSamples, NOcrTexts)
    IN
    /\ dae_type = "G5"
    /\ SessionIdle
    /\ pc = "ready"
    /\ \E n \in 0..MaxOcrResults : \E texts \in [1..n -> OcrTexts] :
          args = [results |-> [i \in 1..n |-> OcrResult(texts[i])]]
    /\ out = EmptyDict

CallExtractImportantInfoG5 ==
    /\ pc = "ready"
    /\ pc' = "extract_important_info_g5"
    /\ out' = extract_important_info_g5(args.results)
    /\ UNCHANGED <<dae_type, processed_data, st_messages, returned, last_call, args>>

NextInfoG5 == CallExtractImportantInfoG5

SpecInfoG5 == InitInfoG5 /\ [][NextInfoG5]_vars

\* C20: the serial that extract_important_info_g5 returns is None when no
\* result holds 'SN' or 'Serial Number'; otherwise, when it is not None, it is
\* the text of a result that comes after a marker, is serial-shaped (letters,
\* whitespace, then digits or O's) and is the first such result after that
\* marker, with every O and o written as 0.
C20_SerialIsNextShapedTokenAfterMarker ==
    pc = "extract_important_info_g5" =>
        LET text(i) == args.results[i][2]
            n == Len(args.results)
            shaped(i) == serial_pattern_at(text(i), 1).ok
                         /\ serial_pattern_at(text(i), 1).group = text(i)
        IN /\ (\A i \in 1..n : ~is_sn_marker(text(i))) => out[1] = None
           /\ out[1] # None =>
                 \E m \in 1..n, t \in 1..n :
                    /\ m < t /\ is_sn_marker(text(m))
                    /\ shaped(t) /\ \A u \in (m + 1)..(t - 1) : ~shaped(u)
                    /\ out[1] = replace_o(text(t))

---------------------------------------------------------------------------
(* Further properties of compare_dates_with_releve (SpecField) *)

\* C21: in compare_dates_with_releve, every source whose date value is
\* present and unparsable has exactly one entry of 'errors' that names it and
\* no match key; the call returns a result, in which every pair of the other
\* sources that both parsed still has its match key.
C21_UnparsableSourceGivesErrorOnly ==
    pc = "compare_dates_with_releve" =>
        LET present(s) == args[s] \notin {None, <<>>, NA}
            unparsable(s) == present(s) /\ ~parse_date(args[s]).ok
            parsed(s) == present(s) /\ parse_date(args[s]).ok
        IN /\ "errors" \in DOMAIN out
           /\ \A s \in Sources :
                 Cardinality({i \in 1..Len(out["errors"]) : out["errors"][i].name = s})
                     = IF unparsable(s) THEN 1 ELSE 0
           /\ \A s \in Sources : unparsable(s) =>
                 \A b \in Sources :
                    MatchKey(s, b) \notin DOMAIN out /\ MatchKey(b, s) \notin DOMAIN out
           /\ \A a, b \in Sources : (a # b /\ parsed(a) /\ parsed(b)) =>
                 {MatchKey(a, b), MatchKey(b, a)} \cap DOMAIN out # {}

\* an unparsable image date beside three dates that parse: one error, naming
\* the image, and the three match keys of the other sources
C21_Witness ==
    /\ pc = "compare_dates_with_releve"
    /\ args["image"] \notin {None, <<>>, NA} /\ ~parse_date(args["image"]).ok
    /\ \A s \in Sources \ {"image"} :
          args[s] \notin {None, <<>>, NA} /\ parse_date(args[s]).ok
    /\ Len(out["errors"]) = 1 /\ out["errors"][1].name = "image"
    /\ MatchKey("rvd_original", "rvd_releve") \in DOMAIN out
    /\ MatchKey("rvd_original", "aed") \in DOMAIN out
    /\ MatchKey("rvd_releve", "aed") \in DOMAIN out
    /\ MatchKey("aed", "image") \notin DOMAIN out

---------------------------------------------------------------------------
(* processing.py: process_image_file on the files of an upload (SpecUpload). *)
(* What the image library, the classifier, the OCR reader and the barcode   *)
(* decoder do with a file is an input: opening, classifying, reading and    *)
(* decoding each succeed or raise; `info` is the pair the extractor returns *)
(* for the text read                                                        *)

UploadedImage(open, classify, classes, ocr, info, decode, barcodes) ==
    [open |-> open, classify |-> classify, classes |-> classes, ocr |-> ocr,
     info |-> info, decode |-> decode, barcodes |-> barcodes]

UploadSamples == <<
    UploadedImage("ok", "ok", <<"Electrodes">>, "ok", <<None, None>>, "ok",
                  << <<"L", "O", "T", "-", "7", "7">> >>),
    UploadedImage("ok", "ok", <<"Defibrillateur G5">>, "ok",
                  << <<"A", "B", "C", "1", "2", "3">>, <<"2", "0", "2", "3", "-", "1", "2", "-", "1", "5">> >>, "ok", <<>>),
    UploadedImage("ok", "ValueError", <<>>, "ok", <<None, None>>, "ok", <<>>),
    UploadedImage("ok", "ok", <<"Defibrillateur G5">>, "Exception",
                  << <<"A", "B", "C", "1", "2", "3">>, <<"2", "0", "2", "3", "-", "1", "2", "-", "1", "5">> >>, "ok", <<>>),
    UploadedImage("ok", "ok", <<"Electrodes">>, "Exception", <<None, None>>, "Exception", <<>>),
    UploadedImage("ok", "ok", <<"Electrodes">>, "ok", <<None, None>>, "ok",
                  << <<"L", "O", "T", "-", "7", "7">>, <<"2", "0", "2", "5", "-", "0", "6", "-", "3", "0">> >>),
    UploadedImage("raises", "ok", <<>>, "ok", <<None, None>>, "ok", <<>>),
    UploadedImage("ok", "Exception", <<>>, "ok", <<None, None>>, "ok", <<>>),
    UploadedImage("ok", "ok", <<"Electrodes">>, "ok", <<None, None>>, "ValueError", <<>>),
    UploadedImage("ok", "ok", <<"Electrodes">>, "ok", <<None, None>>, "ok", <<>>),
    UploadedImage("ok", "ok", <<"Batterie">>, "Exception", <<None, None>>, "ok", <<>>),
    UploadedImage("ok", "ok", <<"Batterie", "Electrodes">>, "ok",
                  << <<"X", "Y", "Z", "-", "9">>, None >>, "ok", <<>>),
    UploadedImage("ok", "ok", <<"Defibrillateur G3">>, "ok",
                  << <<"1", "2", "3", "4", "5">>, None >>, "ok", <<>>),
    UploadedImage("ok", "ok", <<>>, "ok", <<None, None>>, "ok", <<>>) >>

NUploads == 10

MaxFiles == 3

\* what a call that returns leaves to its caller
Returned(value) == [raised |-> "no", value |-> value]

\* extract_important_info_electrodes(image) (extraction.py:323-357): the two
\* first barcodes, (None, None) for fewer than two or for a ValueError; any
\* other exception of the decoder is raised to the caller
extract_important_info_electrodes(file) ==
    IF file.decode = "ValueError" THEN Returned(<<None, None>>)
    ELSE IF file.decode # "ok" THEN Raised(file.decode, <<>>)
    ELSE IF Len(file.barcodes) >= 2
    THEN Returned(<<file.barcodes[1], file.barcodes[2]>>)
    ELSE Returned(<<None, None>>)

\* an error handler that appends nothing
add_error_image_skipped(images, error_type) == images

\* add_error_image(image, error_type) (processing.py:260-273)
add_error_image(images, error_type) == Append(images, ImageRecord(error_type, None, None))

\* process_classified_image (processing.py:217-257): the images with the
\* record of the file appended, or the exception raised before the append
process_classified_image(images, file) ==
    LET detected_classes == file.classes
        \* name in detected_classes[0], for the labels of the classifier
        is_class(name) ==
            /\ detected_classes # <<>>
            /\ detected_classes[1] \in
                  CASE name = "Defibrillateur" -> {"Defibrillateur G5", "Defibrillateur G3"}
                    [] name = "Batterie" -> {"Batterie"}
                    [] name = "Electrodes" -> {"Electrodes"}
        info == IF is_class("Defibrillateur") \/ is_class("Batterie")
                THEN IF file.ocr # "ok" THEN Raised(file.ocr, <<>>)
                     ELSE Returned(file.info)
                ELSE IF is_class("Electrodes") THEN extract_important_info_electrodes(file)
                ELSE Returned(<<None, None>>)
    IN IF info.raised # "no" THEN info
       ELSE Returned(Append(images,
                            ImageRecord(IF detected_classes # <<>> THEN detected_classes[1]
                                        ELSE "Non classifié",
                                        info.value[1], info.value[2])))

\* process_image_file (processing.py:149-214): every exception of the body
\* is caught and answered with add_error_image
process_image_file(images, file) ==
    IF file.open # "ok" THEN add_error_image(images, "Erreur de traitement")
    ELSE IF file.classify = "ValueError"
    THEN add_error_image(images, "Erreur de classification")
    ELSE IF file.classify # "ok" THEN add_error_image(images, "Erreur de traitement")
    ELSE CHOOSE after \in
             {IF r.raised # "no"
              THEN add_error_image(images, IF r.raised = "ValueError"
                                           THEN "Erreur de classification"
                                           ELSE "Erreur de traitement")
              ELSE r.value : r \in {process_classified_image(images, file)}} : TRUE

InitUpload ==
    /\ dae_type \in {"G5", "G3"}
    /\ processed_data = initial_processed_data
    /\ st_messages = <<>>
    /\ returned = EmptyDict
    /\ last_call = "setup_session_state"
    /\ pc = "upload"
    /\ \E n \in 1..MaxFiles :
          \E files \in [1..n -> FirstN(UploadSamples, NUploads)] : args = [files |-> files]
    /\ out = 0

\* one turn of the loop over the uploaded files (ui.py:913-926), the file
\* being an image (processing.py:284-327): out counts the files done
ProcessUploadedFile ==
    /\ pc = "upload"
    /\ out < Len(args.files)
    /\ out' = out + 1
    /\ processed_data' = ("images" :> process_image_file(processed_data["images"],
                                                         args.files[out + 1]))
                         @@ processed_data
    /\ last_call' = "process_image_file"
    /\ UNCHANGED <<dae_type, st_messages, returned, pc, args>>

SpecUpload == InitUpload /\ [][ProcessUploadedFile]_vars

\* the processing of the file failed: classification, OCR or barcode
\* decoding raised, or fewer than two barcodes were found
ProcessingFailed(file) ==
    \/ file.classify # "ok"
    \/ /\ file.classify = "ok" /\ file.classes # <<>>
       /\ \/ /\ file.classes[1] \in {"Defibrillateur G5", "Defibrillateur G3", "Batterie"}
             /\ file.ocr # "ok"
          \/ /\ file.classes[1] = "Electrodes"
             /\ (file.decode # "ok" \/ Len(file.barcodes) < 2)

\* C22: every uploaded image processed so far has exactly one record in
\* processed_data['images'], in upload order; the record of a file whose
\* classification, OCR or barcode decoding raised, or that showed fewer than
\* two barcodes, has serial None and date None; and while files remain the
\* next one can be processed, whatever happened to the files before it
C22_FailedImageGivesOneNullRecord ==
    pc = "upload" =>
        /\ Len(processed_data["images"]) = out
        /\ \A k \in 1..out :
              ProcessingFailed(args.files[k]) =>
                 /\ processed_data["images"][k]["serial"] = None
                 /\ processed_data["images"][k]["date"] = None
        /\ out < Len(args.files) => ENABLED ProcessUploadedFile

C22_Witness ==
    /\ pc = "upload"
    /\ out = 3
    /\ ProcessingFailed(args.files[1])
    /\ args.files[1].classify = "ok"
    /\ args.files[1].classes = <<"Electrodes">>
    /\ Len(args.files[1].barcodes) = 1
    /\ ProcessingFailed(args.files[2])
    /\ args.files[2].ocr = "Exception"
    /\ ~ProcessingFailed(args.files[3])
    /\ Len(processed_data["images"]) = 3
    /\ processed_data["images"][1]["type"] = "Electrodes"
    /\ processed_data["images"][1]["serial"] = None
    /\ processed_data["images"][2]["type"] = "Erreur de traitement"
    /\ processed_data["images"][3]["serial"] # None

(* Further properties of compare_section (SpecSection) *)

\* C23: in the battery section, when the RVD has 'Changement batterie' =
\* 'Oui' the serial, the fabrication date, the installation date and the
\* battery level take their RVD value from the new-battery fields; when it
\* has 'Non' they take it from the original-battery fields.
C23_BatteryFieldsFollowChangeFlag ==
    pc = "batterie" =>
        LET shown(field) == IF Truthy(Get(args.rvd, field)) THEN Get(args.rvd, field) ELSE NA
            flag == Get(args.rvd, "Changement batterie")
            level_from(field) ==
                compare_battery_level(
                    ("Niveau de charge de la batterie en %" :> Get(args.rvd, field))
                    @@ args.rvd, args.aed)
        IN /\ flag = Oui =>
                /\ out["Numéro de série"]["rvd_original"] = shown("N° série nouvelle batterie")
                /\ out["Date de fabrication"]["rvd_original"]
                      = shown("Date fabrication nouvelle batterie")
                /\ out["installation_date"]["rvd_original"]
                      = shown("Date de mise en service de la nouvelle batterie")
                /\ out["battery_level"] = level_from("Niveau de charge nouvelle batterie")
           /\ flag = Non =>
                /\ out["Numéro de série"]["rvd_original"] = shown("Numéro de série Batterie")
                /\ out["Date de fabrication"]["rvd_original"]
                      = shown("Date fabrication BATTERIE")
                /\ out["installation_date"]["rvd_original"]
                      = shown("Date mise en service BATTERIE")
                /\ out["battery_level"] = level_from("Niveau de charge de la batterie en %")

\* C24: in the electrodes section, when the RVD has 'Changement électrodes
\* adultes' = 'Oui' the adult serial and expiry-date comparisons take their
\* RVD value from 'N° série nouvelles électrodes' and 'Date péremption des
\* nouvelles éléctrodes'; otherwise from the original adult-electrode fields.
C24_AdultElectrodeFieldsFollowChangeFlag ==
    pc = "electrodes" =>
        LET shown(field) == IF Truthy(Get(args.rvd, field)) THEN Get(args.rvd, field) ELSE NA
            changed == Get(args.rvd, "Changement électrodes adultes") = Oui
            adultes == out["adultes"]
        IN /\ adultes["Numéro_de_série"]["rvd_original"]
                 = shown(IF changed THEN "N° série nouvelles électrodes"
                         ELSE "Numéro de série ELECTRODES ADULTES")
           /\ adultes["date_de_péremption"]["rvd_original"]
                 = shown(IF changed THEN "Date péremption des nouvelles éléctrodes"
                         ELSE "Date de péremption ELECTRODES ADULTES")

(* Further properties of compare_dates_with_releve (SpecField) *)

\* C25: the value of match_<A>_<B> depends only on the values of sources A
\* and B: it is the value the call gives when the other two sources are
\* absent, and it is true exactly when the two calendar dates are equal.
C25_MatchDependsOnlyOnItsTwoSources ==
    pc = "compare_dates_with_releve" =>
        \A a, b \in Sources :
           MatchKey(a, b) \in DOMAIN out =>
              LET only == [s \in Sources |-> IF s \in {a, b} THEN args[s] ELSE None]
                  alone == compare_dates_with_releve(only["rvd_original"], only["rvd_releve"],
                                                     only["aed"], only["image"])
              IN /\ MatchKey(a, b) \in DOMAIN alone
                 /\ out[MatchKey(a, b)] = alone[MatchKey(a, b)]
                 /\ out[MatchKey(a, b)]
                       = (parse_date(args[a]).date = parse_date(args[b]).date)

(* Further properties of extract_rvd_data (SpecRvd) *)

\* C26: for a keyword K that is a proper prefix of another keyword K', the
\* value of K is taken from a line labelled K and never from a line labelled
\* K': it is the value the text gives once the lines labelled with a longer
\* keyword are blanked, wherever those lines stand.
C26_PrefixKeywordReadsItsOwnLine ==
    pc = "extract_rvd_data" =>
        LET lines == splitlines(args.text)
            longer(i) == {j \in 1..Len(keywords) :
                            /\ Len(keywords[j]) > Len(keywords[i])
                            /\ MatchesAt(keywords[j], 1, keywords[i])}
            labelled_longer(line, i) ==
                \E j \in longer(i) : MatchesAt(lower(strip(line)), 1, lower(keywords[j]))
            own_text(i) ==
                JoinLines([n \in 1..Len(lines) |->
                             IF labelled_longer(lines[n], i) THEN <<>> ELSE lines[n]])
        IN \A i \in 1..Len(keywords) :
              longer(i) # {} =>
                 out[keyword_keys[i]] = extract_rvd_data(own_text(i))[keyword_keys[i]]

\* C27: every RVD field and every device-report field that compare_section
\* and compare_battery_level read is a key the extractor of the document can
\* produce: a field of either document that no extractor produces has no
\* influence on the result of a section, for either generation and either
\* value of the change flags.
C27_FieldsReadAreExtractorKeys ==
    pc \in {sections[i] : i \in 1..Len(sections)} =>
        LET rvd_fields ==
                {"Niveau de charge de la batterie en %", "Changement batterie",
                 "Numéro de série Batterie", "N° série nouvelle batterie",
                 "Numéro de série relevé 2", "Date fabrication BATTERIE",
                 "Date fabrication BATTERIE relevée", "Date mise en service BATTERIE",
                 "Date mise en service BATTERIE relevée",
                 "Numéro de série DEFIBRILLATEUR", "Numéro de série relevé",
                 "Date fabrication DEFIBRILLATEUR", "Date fabrication relevée",
                 "Date-Heure rapport vérification défibrillateur",
                 "Changement électrodes pédiatriques",
                 "Numéro de série ELECTRODES ADULTES",
                 "Numéro de série ELECTRODES ADULTES relevé",
                 "Date de péremption ELECTRODES ADULTES",
                 "Date de péremption ELECTRODES ADULTES relevée",
                 "Numéro de série ELECTRODES PEDIATRIQUES",
                 "Numéro de série ELECTRODES PEDIATRIQUES relevé",
                 "Date de péremption ELECTRODES PEDIATRIQUES",
                 "Date de péremption ELECTRODES PEDIATRIQUES relevée"}
            aed_fields ==
                {"N° série DAE", "Série DSA", "Date / Heure:", "Date de mise en service",
                 "Date d'installation :", "Date de mise en service batterie",
                 "Capacité restante de la batterie", "Capacité restante de la batterie 12V"}
            rvd_keys == {keyword_keys[i] : i \in 1..Len(keywords)}
            aed_keys == IF dae_type = G5_TYPE
                        THEN {g5_keyword_keys[i] : i \in 1..Len(g5_keywords)} \cup {"errors"}
                        ELSE g3_result_keys
            values == {Oui, <<"8", "0", " ", "%">>}
        IN /\ \A field \in rvd_fields \ rvd_keys : \A value \in values :
                 compare_section(pc, (field :> value) @@ args.rvd, args.aed, args.images) = out
           /\ \A field \in aed_fields \ aed_keys : \A value \in values :
                 compare_section(pc, args.rvd, (field :> value) @@ args.aed, args.images) = out

(* Further properties of the session (Spec) *)

\* C28: whatever selections, uploads and comparisons have taken place, the
\* device report compare_data passes to compare_section is empty or has the
\* keys of the parser of the generation now selected; 'AEDG5' holds nothing
\* but a result of extract_aed_g5_data and 'AEDG3' nothing but a result of
\* extract_aed_g3_data.
C28_ReportMatchesSelectedGeneration ==
    LET g5_keys == {g5_keyword_keys[i] : i \in 1..Len(g5_keywords)} \cup {"errors"}
        passed == GetOr(processed_data, aed_type_key, EmptyDict)
    IN /\ passed # EmptyDict =>
             DOMAIN passed = (IF dae_type = G5_TYPE THEN g5_keys ELSE g3_result_keys)
       /\ processed_data["AEDG5"] # EmptyDict => DOMAIN processed_data["AEDG5"] = g5_keys
       /\ processed_data["AEDG3"] # EmptyDict => DOMAIN processed_data["AEDG3"] = g3_result_keys

\* a G5 report was uploaded, G3 was then selected and a G3 report uploaded,
\* and the comparison ran on the G3 report
C28_Witness ==
    /\ dae_type = "G3"
    /\ last_call = "compare_data"
    /\ processed_data["AEDG5"] = G5Doc
    /\ processed_data["AEDG3"] = G3Doc
    /\ ~rvd_missing
    /\ returned["defibrillateur"]["Numéro de série"]["aed"] = G3Doc["Série DSA"]

\* C30: for either generation, when an image classified as a defibrillator
\* of the selected generation has been processed, the defibrillateur section
\* takes its image serial and image date from the first such record of
\* processed_data['images'].
C30_DefibrillatorImageOfSelectedGeneration ==
    pc = "defibrillateur" =>
        LET shown(value) == IF Truthy(value) THEN value ELSE NA
            image == get_image_by_type(args.images, "Defibrillateur " \o dae_type)
        IN image # EmptyDict =>
              /\ out["Numéro de série"]["image"] = shown(image["serial"])
              /\ out["date de fabrication"]["image"] = shown(image["date"])

---------------------------------------------------------------------------
(* ui.py: the validation summary of the comparison tab (SpecSummary) *)

\* consumables_comparison (ui.py:1686-1698), the 'Consommables' section added
\* to the results of compare_data
consumables_comparison(rvd_data, aed_data) ==
    [item \in {"Changement batterie", "Changement électrodes adultes",
               "Changement électrodes pédiatriques"} |->
        [rvd |-> GetOr(rvd_data, item, Non), aed |-> GetOr(aed_data, item, Non),
         match_rvd_aed |-> GetOr(rvd_data, item, Non) = GetOr(aed_data, item, Non)]]

\* check_matches(section_data) (ui.py:1550-1577), its first result: no flag
\* whose key starts with 'match_' is false, in the section's comparisons and
\* in those nested under 'adultes' and 'pediatriques'
check_matches(section_data) ==
    LET passes(value) ==
            \A k \in DOMAIN value :
               k \in {MatchKey(a, b) : a, b \in Sources} \cup {"match_rvd_aed"} => value[k]
    IN \A key \in DOMAIN section_data :
          /\ passes(section_data[key])
          /\ key \in {"adultes", "pediatriques"} =>
                \A nested \in DOMAIN section_data[key] : passes(section_data[key][nested])

InitSummary ==
    /\ dae_type \in {"G5", "G3"}
    /\ \E cb \in {Oui, Non}, cp \in {None, Non, Oui}, so \in FirstN(SerialSamples, NSerials),
          d \in DateSamples, images \in ImageLists,
          aed \in {EmptyDict, IF dae_type = "G5" THEN G5Doc ELSE G3Doc,
                   ("Capacité restante de la batterie" :> <<"5", "0", "%">>)
                   @@ (IF dae_type = "G5" THEN G5Doc ELSE G3Doc)} :
          processed_data = ("RVD" :> WithPediatricFlag(RvdDoc(cb, so, <<>>, d), cp))
                           @@ (aed_type_key :> aed) @@ ("images" :> images)
                           @@ initial_processed_data
    /\ st_messages = <<>>
    /\ returned = EmptyDict
    /\ last_call = "process_pdf_file"
    /\ pc = "ready"
    /\ args = EmptyDict
    /\ out = EmptyDict

\* the comparison tab (ui.py:1684-1716): compare_data, the 'Consommables'
\* section added to the dict it returned (the object stored under
\* 'comparisons'), and all_matches over the sections
RenderValidation ==
    /\ pc = "ready"
    /\ pc' = "validated"
    /\ \E comparison_results \in
            {("Consommables" :>
                 consumables_comparison(GetOr(processed_data, "RVD", EmptyDict),
                                        GetOr(processed_data, aed_type_key, EmptyDict)))
             @@ compare_data_results} :
          /\ returned' = comparison_results
          /\ processed_data' = IF rvd_missing THEN processed_data
                               ELSE ("comparisons" :> comparison_results) @@ processed_data
          /\ out' = [all_matches |->
                        \A section_name \in DOMAIN comparison_results :
                           check_matches(comparison_results[section_name])]
    /\ st_messages' = <<>>
    /\ last_call' = "compare_data"
    /\ UNCHANGED <<dae_type, args>>

SpecSummary == InitSummary /\ [][RenderValidation]_vars

\* C29: the validation summary reports success (all_matches) only if no
\* comparison of the run is a mismatch, the battery_level comparison, whose
\* flag is stored under the key 'match', included.
C29_SuccessOnlyWithoutMismatch ==
    (pc = "validated" /\ out.all_matches) =>
        LET level == returned["batterie"]["battery_level"]
            comparisons ==
                UNION {{returned[s][c] :
                           c \in {"Numéro de série", "date de fabrication",
                                  "Date de rapport", "Date de fabrication",
                                  "installation_date", "Changement batterie",
                                  "Changement électrodes adultes",
                                  "Changement électrodes pédiatriques"}
                                 \cap DOMAIN returned[s]} :
                         s \in {"defibrillateur", "batterie", "Consommables"}}
                \cup UNION {{returned["electrodes"][e][c] :
                                c \in {"Numéro_de_série", "date_de_péremption"}
                                      \cap DOMAIN returned["electrodes"][e]} :
                              e \in {"adultes", "pediatriques"}}
        IN /\ \A comparison \in comparisons :
                 \A k \in DOMAIN comparison :
                    k \in {MatchKey(a, b) : a, b \in Sources} \cup {"match_rvd_aed"}
                       => comparison[k]
           /\ {"rvd", "aed"} \subseteq DOMAIN level => level["match"]

====
